---- MODULE Spec2Model ----
(***************************************************************************)
(* Model of the deal-logging bot's message grouping engine                 *)
(* (src/bot/utils/grouping.py): the per-conversation debounce state        *)
(* machine MessageGrouper, run by asyncio's cooperative scheduler.         *)
(*                                                                         *)
(* A coroutine runs without interruption from one suspension point to the  *)
(* next, so every action below is one such run.  The suspension points of  *)
(* the grouper are: asyncio.sleep in _timer_callback, a contended          *)
(* asyncio.Lock acquire, and "await self._timers[chat_id]" in _reset_timer *)
(* (which suspends while the lock is held).  Steps take no time; time      *)
(* passes (Tick) only when no task can run.                                *)
(***************************************************************************)
EXTENDS Integers, Sequences, FiniteSets, TLC

----------------------------------------------------------------------------
(* Bounds of the model and constants of the program *)

\* At most this many messages of the Pool arrive in one behaviour.
MaxMsgs == 3

\* Seconds between two add_message calls are counted exactly up to this.
SinceCap == 6

\* Largest max_group_size the general specification configures.
MaxSizeBound == 3

\* "gap > 120" in _should_start_new_group.
GapSeconds == 120

\* DealLoggingBot.setup: quick_timeout=3.0, max_group_size=10; MESSAGE_GROUPING_TIMEOUT default 30.
BotQuickTimeout == 3
BotMaxGroupSize == 10
BotTimeoutSeconds == 30

\* PapermarkExtractor._rate_window, in minutes, and _rate_limit.
RateWindow == 30
RateLimit == 5

\* At most this many _enforce_rate_limit calls are made in one behaviour.
MaxCalls == 7

\* _enforce_rate_limit is called up to this minute.
MaxCallTime == 20

\* get_all_deck_links finds at most this many links in a message.
MaxLinks == 2

\* URL_PATTERN finds at most this many urls in a text.
MaxUrls == 3

\* At most this many detect_links calls are made one after the other.
MaxDetectCalls == 3

\* "len(d.content) < 500": a shorter text is thin content.
ThinThreshold == 500

Chats == {1, 2}

\* Attachment file names, as sequences of characters.
NoName == <<>>
PitchPDF == <<"P", ".", "P", "D", "F">>
NotesTxt == <<"n", ".", "t", "x", "t">>

\* The messages that may arrive (BufferedMessage.from_telegram_message keeps
\* message_id, chat_id, sender_name, reply_to_message_id, has_document,
\* document_name).  reply_to_message_id 0 stands for None.  A message's
\* message_id is its index in the Pool.  on_group_ready is the callable passed
\* to add_message with the message, named by what awaiting it does: it
\* returns, it raises an exception, or it suspends and never returns.
Pool ==
  << [chat_id |-> 1, sender_name |-> "Alice", reply_to_message_id |-> 0,
      has_document |-> FALSE, document_name |-> NoName,
      on_group_ready |-> "raises"],
     [chat_id |-> 1, sender_name |-> "Alice", reply_to_message_id |-> 1,
      has_document |-> FALSE, document_name |-> NoName,
      on_group_ready |-> "returns"],
     [chat_id |-> 1, sender_name |-> "Bob", reply_to_message_id |-> 1,
      has_document |-> TRUE, document_name |-> PitchPDF,
      on_group_ready |-> "hangs"],
     [chat_id |-> 2, sender_name |-> "", reply_to_message_id |-> 0,
      has_document |-> TRUE, document_name |-> NotesTxt,
      on_group_ready |-> "hangs"],
     [chat_id |-> 2, sender_name |-> "Alice", reply_to_message_id |-> 4,
      has_document |-> FALSE, document_name |-> NoName,
      on_group_ready |-> "raises"] >>

\* The callable passed to flush_all.
FlushCallback == "returns"

MsgIds == 1..Len(Pool)

\* The messages that arrive in the behaviours that follow the processing tasks.
WorkPool == {1, 3, 4}

\* The messages that arrive after message 4 in the behaviours that follow a
\* timer queued for the lock.
AwaitPool == {1, 2, 5}

\* Two handed-off groups are processed in parallel.
Groups == {1, 2}

NoTime == -1
NoTimer == 0

\* FetchedDeck.content is None; a text is represented by its length.
NoContent == -1
\* FetchedDeck.error is None.
NoError == ""
\* DealExtractor.extract has not returned.
NoResult == [returned |-> FALSE]
\* _fetch_deck has not returned.
NoDeck == [returned |-> FALSE]
\* detect_links has not returned.
NoLinks == [returned |-> FALSE]

VARIABLES
  timeout_seconds,     \* MessageGrouper.timeout_seconds
  max_group_size,      \* MessageGrouper.max_group_size
  quick_timeout,       \* MessageGrouper.quick_timeout
  tick,                \* granularity of time in this behaviour (seconds per Tick)
  pool,                \* the messages that may arrive in this behaviour
  track,               \* whether this behaviour follows the processing tasks
  pending_groups,      \* _pending_groups: chat -> open group (present = FALSE: no entry)
  last_message_time,   \* _last_message_time: chat -> seconds elapsed since the stored time, or NoTime
  timers,              \* _timers: chat -> id of the registered timer task, or NoTimer
  tasks,               \* the timer tasks created so far, by the id of the message that armed them
  locked,              \* _lock._locked
  waiters,             \* _lock._waiters, first in first out, each with its future's state
  adds,                \* the add_message calls, by message id
  flush,               \* the flush_all call
  arrived,             \* message ids in the order add_message was called
  admitted,            \* message ids in the order add_message acquired the lock
  since,               \* seconds since the latest add_message call (exact up to SinceCap)
  last_delay,          \* seconds between the latest add_message call and the one before it
  handed,              \* groups handed to on_group_ready, in hand-off order
  stopped,             \* stop() has been called
  workers,             \* the _process_group_wrapper tasks, workers[i] processing handed[i]
  active_tasks,        \* _active_tasks, as indices of workers
  stopping,            \* the stop() call: its position and the tasks it gathers
  waiting,             \* the wait_for_completion() call: its position and the tasks it gathers
  drain,               \* progress of a flush_all followed by wait_for_completion
  rate_now,            \* datetime.now() of the DeckExtract rate limiter, in minutes
  request_timestamps,  \* PapermarkExtractor._request_timestamps
  calls,               \* the _enforce_rate_limit calls: position and wake-up time
  requests,            \* the DeckExtract requests posted: time and caller, in order
  detected_links,      \* DealExtractor.extract: detected_links, as the links' urls
  pdf_content,         \* DealExtractor.extract: pdf_content, as its length or NoContent
  fetched_decks,       \* DealExtractor.extract: fetched_decks
  result,              \* what DealExtractor.extract returned, or NoResult
  link_type,           \* _fetch_deck: link.link_type
  has_password,        \* _fetch_deck: a password was found in the text or configured
  docsend_enabled,     \* DealExtractor.docsend_extractor is not None
  agent_enabled,       \* DealExtractor.browser_agent_extractor is not None
  attempts,            \* the extractors _fetch_deck called, with what each reported
  fetched_deck,        \* what _fetch_deck returned, or NoDeck

  group_url,           \* the direct-PDF url in each group being processed
  cleanup_after_extract, \* DealExtractor.cleanup_after_extract
  extracting,          \* each group's extract call: its position
  files,               \* the paths that exist under temp_dir
  pending_cleanup,     \* DealExtractor._pending_cleanup
  unreadable,          \* the groups whose saved PDF was gone when they read it

  found_urls,          \* detect_links: what URL_PATTERN.findall(text) gives, in order
  links_out,           \* what detect_links returned, or NoLinks
  seen_urls,           \* detect_links: its local seen_urls when it returned
  history              \* the detect_links calls made so far: detector, urls, result

\* The rate limiter's state, which no step of the grouper touches.
rate_vars == <<rate_now, request_timestamps, calls, requests>>

\* What no step of the grouper changes: its configuration and the other
\* components' state.
\* DealExtractor.extract's inputs, locals and result.
extract_vars == <<detected_links, pdf_content, fetched_decks, result>>

\* One _fetch_deck call: its link, the extractor's configuration, its result.
fetch_vars == <<link_type, has_password, docsend_enabled, agent_enabled, attempts,
               fetched_deck>>

\* The files written while handed-off groups are processed.
path_vars == <<group_url, cleanup_after_extract, extracting, files, pending_cleanup,
               unreadable>>

\* One detect_links call: the urls found in its text and its result.
detect_vars == <<found_urls, links_out, seen_urls, history>>

cfgvars == <<timeout_seconds, max_group_size, quick_timeout, tick, pool, track,
             rate_vars, extract_vars, fetch_vars, path_vars, detect_vars>>
grouper_vars == <<timeout_seconds, max_group_size, quick_timeout, tick, pool, track,
          pending_groups,
          last_message_time, timers, tasks, locked, waiters, adds, flush,
          arrived, admitted, since, last_delay, handed, stopped, workers,
          active_tasks, stopping, waiting, drain>>
vars == <<grouper_vars, rate_vars, extract_vars, fetch_vars,
         path_vars,
         detect_vars>>
shutvars == <<stopping, waiting, drain>>

----------------------------------------------------------------------------
(* MessageGroup *)

AbsentGroup == [present |-> FALSE, messages |-> <<>>, primary_sender |-> ""]
\* MessageGroup(): messages = [], primary_sender = "".
EmptyGroup == [present |-> TRUE, messages |-> <<>>, primary_sender |-> ""]

\* MessageGroup.add_message
GroupAddMessage(group, m) ==
  [group EXCEPT !.messages = Append(@, m),
                !.primary_sender = IF @ = "" THEN Pool[m].sender_name ELSE @]

\* MessageGroup.get_all_message_ids
GetAllMessageIds(group) == {group.messages[i] : i \in 1..Len(group.messages)}

\* MessageGroup.has_document
GroupHasDocument(group) ==
  \E i \in 1..Len(group.messages) : Pool[group.messages[i]].has_document

----------------------------------------------------------------------------
(* str.lower and str.endswith on file names *)

LowerChar(ch) ==
  CASE ch = "P" -> "p"
    [] ch = "D" -> "d"
    [] ch = "F" -> "f"
    [] OTHER -> ch

\* A comparison of the name as written.
Lower_AsWritten(name) == name

Lower(name) == [i \in 1..Len(name) |-> LowerChar(name[i])]

EndsWith(name, suffix) ==
  /\ Len(name) >= Len(suffix)
  /\ SubSeq(name, Len(name) - Len(suffix) + 1, Len(name)) = suffix

DotPdf == <<".", "p", "d", "f">>

----------------------------------------------------------------------------
(* The decisions of add_message *)

\* The gap rule with the threshold taken for minutes.
GapExceeded_Minutes(last_time) == last_time > GapSeconds * 60

\* "gap > 120" with gap the seconds elapsed since last_time.
GapExceeded(last_time) == last_time > GapSeconds

\* The new-group decision without the reply exception of the sender rule.
ShouldStartNewGroup_NoReply(m, current_group, last_time, maxsize) ==
  IF ~current_group.present \/ current_group.messages = <<>> THEN TRUE
  ELSE IF Pool[m].sender_name # current_group.primary_sender THEN TRUE
  ELSE IF last_time # NoTime /\ GapExceeded(last_time) THEN TRUE
  ELSE IF Len(current_group.messages) >= maxsize THEN TRUE
  ELSE FALSE

\* MessageGrouper._should_start_new_group
ShouldStartNewGroup(m, current_group, last_time, maxsize) ==
  IF ~current_group.present \/ current_group.messages = <<>> THEN TRUE
  ELSE IF /\ Pool[m].sender_name # current_group.primary_sender
          /\ Pool[m].reply_to_message_id \notin GetAllMessageIds(current_group)
       THEN TRUE
  ELSE IF last_time # NoTime /\ GapExceeded(last_time) THEN TRUE
  ELSE IF Len(current_group.messages) >= maxsize THEN TRUE
  ELSE FALSE

\* The immediate-processing test without its size rule.
ShouldProcessImmediately_NoMax(group, m, maxsize) ==
  /\ Pool[m].has_document
  /\ Pool[m].document_name # NoName
  /\ EndsWith(Lower(Pool[m].document_name), DotPdf)
  /\ Len(group.messages) = 1

\* MessageGrouper._should_process_immediately
ShouldProcessImmediately(group, m, maxsize) ==
  IF Len(group.messages) >= maxsize THEN TRUE
  ELSE IF /\ Pool[m].has_document
          /\ Pool[m].document_name # NoName
          /\ EndsWith(Lower(Pool[m].document_name), DotPdf)
          /\ Len(group.messages) = 1
       THEN TRUE
  ELSE FALSE

Min(a, b) == IF a <= b THEN a ELSE b

\* A timeout that is the base timeout for every group.
CalculateTimeout_Base(group, quick, base) == base

\* A timeout that does not look at the group's attachments.
CalculateTimeout_NoDocument(group, quick, base) ==
  IF Len(group.messages) = 1 THEN quick ELSE Min(quick * 2, base)

\* MessageGrouper._calculate_timeout
CalculateTimeout(group, quick, base) ==
  IF GroupHasDocument(group) THEN quick
  ELSE IF Len(group.messages) = 1 THEN quick
  ELSE Min(quick * 2, base)

----------------------------------------------------------------------------
(* asyncio.Lock and asyncio.Task.cancel *)

\* The progress of a flush_all followed by wait_for_completion with no
\* add_message and no stop called meanwhile: "none", "flushing" (flush_all
\* called), "flushed" (flush_all returned), "waiting" (wait_for_completion
\* called after that), "drained" (it returned); and "abandoned": stop() has
\* been called and no add_message or flush_all since.  Followed with the tasks.
Phase(p) == IF track THEN p ELSE "none"

Waiter(kind, id) == [kind |-> kind, id |-> id, fut |-> "pending"]

\* An acquire that does not look at the lock's state.
CanAcquireNow_Unlocked(isLocked, ws) ==
  \A i \in 1..Len(ws) : ws[i].fut = "cancelled"

\* Lock.acquire's fast path: not locked and every waiter's future cancelled.
CanAcquireNow(isLocked, ws) ==
  ~isLocked /\ \A i \in 1..Len(ws) : ws[i].fut = "cancelled"

\* Lock._wake_up_first: the first waiter's future gets its result unless done.
WakeUpFirst(ws) ==
  IF ws # <<>> /\ ws[1].fut = "pending" THEN [ws EXCEPT ![1].fut = "woken"] ELSE ws

RemoveWaiter(ws, kind, id) ==
  SelectSeq(ws, LAMBDA w : ~(w.kind = kind /\ w.id = id))

IsWoken(ws, kind, id) ==
  \E i \in 1..Len(ws) : ws[i].kind = kind /\ ws[i].id = id /\ ws[i].fut = "woken"

\* A cancel() that leaves the timer task as it is.
CancelTimerTask_Keep(G, t) == G

\* Task.cancel on timer task t: a finished task is left alone; a task waiting
\* on a pending future has that future cancelled; in every case the task gets
\* CancelledError at its next step.
CancelTimerTask(G, t) ==
  IF G.tk[t].state = "done" THEN G
  ELSE [G EXCEPT
          !.tk[t].cancel = TRUE,
          !.ws = [i \in 1..Len(G.ws) |->
                    IF G.ws[i].kind = "timer" /\ G.ws[i].id = t /\ G.ws[i].fut = "pending"
                    THEN [G.ws[i] EXCEPT !.fut = "cancelled"]
                    ELSE G.ws[i]]]

----------------------------------------------------------------------------
(* The grouper's tables, as one value the sequential code updates *)

GState ==
  [pg |-> pending_groups, lt |-> last_message_time, tm |-> timers,
   tk |-> tasks, ws |-> waiters, handed |-> handed, wk |-> workers,
   at |-> active_tasks]

SetG(G) ==
  /\ pending_groups' = G.pg
  /\ last_message_time' = G.lt
  /\ timers' = G.tm
  /\ tasks' = G.tk
  /\ waiters' = G.ws
  /\ handed' = G.handed
  /\ workers' = G.wk
  /\ active_tasks' = G.at

\* A finalization that reads the group and leaves it in the table.
PopGroup_Get(G, c) == [G EXCEPT !.lt[c] = NoTime]

\* A finalization that empties the group's entry and keeps it in the table.
PopGroup_Reset(G, c) == [G EXCEPT !.pg[c] = EmptyGroup, !.lt[c] = NoTime]

\* A finalization that empties the tables of every conversation.
PopGroup_All(G, c) ==
  [G EXCEPT !.pg = [k \in Chats |-> AbsentGroup], !.lt = [k \in Chats |-> NoTime]]

\* A finalization that leaves the conversation's last-activity time behind.
PopGroup_KeepTime(G, c) == [G EXCEPT !.pg[c] = AbsentGroup]

\* "group = self._pending_groups.pop(chat_id, None)" and
\* "self._last_message_time.pop(chat_id, None)".
PopGroup(G, c) == [G EXCEPT !.pg[c] = AbsentGroup, !.lt[c] = NoTime]

\* A finalization that forgets the timer without cancelling it.
CancelPendingTimer_PopOnly(G, c) == [G EXCEPT !.tm[c] = NoTimer]

\* "if chat_id in self._timers: cancel(); self._timers.pop(chat_id, None)".
CancelPendingTimer(G, c) ==
  IF G.tm[c] # NoTimer
  THEN [CancelTimerTask(G, G.tm[c]) EXCEPT !.tm[c] = NoTimer]
  ELSE G

\* The on_group_ready a finalizer passes on: add_message its own argument,
\* _timer_callback that of the add_message that armed it, flush_all its own.
Callback(by) ==
  IF by.kind = "flush" THEN FlushCallback ELSE Pool[by.id].on_group_ready

\* A task created and not yet run.
NewWorker(cb) == [state |-> "ready", cancel |-> FALSE, callback |-> cb]

\* "if group and group.messages: create_task(_process_group_wrapper(group, ...))".
\* by names the caller that finalized; stale says whether that caller is a
\* timer task on which cancel() had been called before it finalized.
\* The new task runs _process_group_wrapper(group, on_group_ready) with the
\* finalizer's callback; "self._active_tasks.add(task)".  The processing tasks
\* do not touch the grouper's tables; a behaviour that does not follow them
\* (track = FALSE) records the hand-off only, as if each task had ended by the
\* grouper's next step.
Dispatch(G, group, by, stale) ==
  IF group.present /\ group.messages # <<>>
  THEN LET H == [G EXCEPT !.handed = Append(@, [messages |-> group.messages,
                                       primary_sender |-> group.primary_sender,
                                       by |-> by, stale |-> stale])]
       IN  IF track
           THEN [H EXCEPT !.wk = Append(@, NewWorker(Callback(by))),
                          !.at = @ \cup {Len(G.wk) + 1}]
           ELSE H
  ELSE G

\* MessageGrouper._finalize_group_unlocked
FinalizeGroupUnlocked(G, c, by, stale) ==
  Dispatch(CancelPendingTimer(PopGroup(G, c), c), G.pg[c], by, stale)

----------------------------------------------------------------------------
(* Tasks *)

NoTask == [state |-> "none", chat |-> 0, remaining |-> 0, cancel |-> FALSE]
DoneTask(c) == [state |-> "done", chat |-> c, remaining |-> 0, cancel |-> FALSE]

IdleAdd == [pc |-> "idle", await_t |-> 0, timeout |-> 0]
LockAdd == [pc |-> "lock", await_t |-> 0, timeout |-> 0]
DoneAdd == [pc |-> "done", await_t |-> 0, timeout |-> 0]

\* "async with self._lock" leaving: Lock.release
ReleaseLock(G) == [G EXCEPT !.ws = WakeUpFirst(@)]

\* A _reset_timer that starts no new timer.
ArmTimer_Forget(G, c, m, timeout) == G

\* "self._timers[chat_id] = asyncio.create_task(self._timer_callback(...))";
\* the new task is the one armed by message m and sleeps for timeout seconds.
ArmTimer(G, c, m, timeout) ==
  [G EXCEPT !.tm[c] = m,
            !.tk[m] = [state |-> "sleep", chat |-> c, remaining |-> timeout,
                       cancel |-> FALSE]]

----------------------------------------------------------------------------
(* The processing tasks' scheduling *)

\* A processing task that has ended: its callback returned, its exception was
\* logged, or it was cancelled.
Ended(w) == w.state \in {"done", "failed", "cancelled"}

\* A processing task is due to run: created and not started, or cancelled and
\* not ended.  Its run touches only workers and _active_tasks, which only
\* stop() and wait_for_completion() read; the event loop runs it ahead of the
\* grouper's steps, with which it commutes.
Due(w) == ~Ended(w) /\ (w.state = "ready" \/ w.cancel)

NoWorkerDue == \A i \in 1..Len(workers) : ~Due(workers[i])

----------------------------------------------------------------------------
(* add_message *)

\* add_message from the lock's acquisition to the choice between finalizing
\* at once and arming the timer (no suspension point in between).
AddMessageBody(G, m) ==
  LET c == Pool[m].chat_id
      by == [kind |-> "add", id |-> m]
      current_group == G.pg[c]
      should_new_group ==
        ShouldStartNewGroup(m, current_group, G.lt[c], max_group_size)
      G1 == IF should_new_group /\ current_group.present
               /\ current_group.messages # <<>>
            THEN FinalizeGroupUnlocked(G, c, by, FALSE)
            ELSE G
      G2 == IF should_new_group THEN [G1 EXCEPT !.pg[c] = EmptyGroup] ELSE G1
      G3 == [G2 EXCEPT !.pg[c] = GroupAddMessage(@, m), !.lt[c] = 0]
  IN  IF ShouldProcessImmediately(G3.pg[c], m, max_group_size)
      THEN [G |-> FinalizeGroupUnlocked(G3, c, by, FALSE), arm |-> FALSE,
            timeout |-> 0]
      ELSE [G |-> G3, arm |-> TRUE,
            timeout |-> CalculateTimeout(G3.pg[c], quick_timeout, timeout_seconds)]

\* add_message once it holds the lock, up to its end or to the suspension in
\* _reset_timer ("await self._timers[chat_id]" on the cancelled old timer).
AddMessageLocked(m, G0) ==
  LET c == Pool[m].chat_id
      r == AddMessageBody(G0, m)
      old == r.G.tm[c]
  IN  /\ admitted' = Append(admitted, m)
      /\ IF ~r.arm
         THEN /\ SetG(ReleaseLock(r.G))
              /\ locked' = FALSE
              /\ adds' = [adds EXCEPT ![m] = DoneAdd]
         ELSE IF old # NoTimer /\ r.G.tk[old].state # "done"
         THEN /\ SetG(CancelTimerTask(r.G, old))
              /\ locked' = TRUE
              /\ adds' = [adds EXCEPT ![m] = [pc |-> "await", await_t |-> old,
                                              timeout |-> r.timeout]]
         ELSE /\ SetG(ReleaseLock(ArmTimer(r.G, c, m, r.timeout)))
              /\ locked' = FALSE
              /\ adds' = [adds EXCEPT ![m] = DoneAdd]

\* A message arrives: handle_message calls add_message, which takes the lock
\* at once or queues for it.
AddMessage(m) ==
  /\ NoWorkerDue
  /\ m \in pool
  /\ adds[m].pc = "idle"
  /\ Len(arrived) < MaxMsgs
  /\ arrived' = Append(arrived, m)
  /\ since' = 0
  /\ last_delay' = IF arrived = <<>> THEN 0 ELSE since
  /\ IF CanAcquireNow(locked, waiters)
     THEN AddMessageLocked(m, GState)
     ELSE /\ waiters' = Append(waiters, Waiter("add", m))
          /\ adds' = [adds EXCEPT ![m] = LockAdd]
          /\ UNCHANGED <<pending_groups, last_message_time, timers, tasks,
                         locked, admitted, handed, workers, active_tasks>>
  /\ drain' = "none"
  /\ UNCHANGED <<cfgvars, flush, stopped, stopping, waiting>>

\* A queued add_message is woken and takes the lock.
AddAcquire(m) ==
  /\ NoWorkerDue
  /\ adds[m].pc = "lock"
  /\ IsWoken(waiters, "add", m)
  /\ AddMessageLocked(m, [GState EXCEPT !.ws = RemoveWaiter(@, "add", m)])
  /\ UNCHANGED <<cfgvars, flush, arrived, since, last_delay, stopped, shutvars>>

\* _reset_timer resumes once the awaited old timer task has ended, arms the
\* new timer and add_message releases the lock.
AddResume(m) ==
  /\ NoWorkerDue
  /\ adds[m].pc = "await"
  /\ tasks[adds[m].await_t].state = "done"
  /\ SetG(ReleaseLock(ArmTimer(GState, Pool[m].chat_id, m, adds[m].timeout)))
  /\ locked' = FALSE
  /\ adds' = [adds EXCEPT ![m] = DoneAdd]
  /\ UNCHANGED <<cfgvars, flush, arrived, admitted, since, last_delay, stopped,
                 shutvars>>

----------------------------------------------------------------------------
(* _timer_callback *)

\* _timer_callback once it holds the lock: finalize, release, end.
TimerLocked(t, G0) ==
  LET c == G0.tk[t].chat
      by == [kind |-> "timer", id |-> t]
      G1 == FinalizeGroupUnlocked(G0, c, by, G0.tm[c] # t)
  IN  /\ SetG(ReleaseLock([G1 EXCEPT !.tk[t] = DoneTask(c)]))
      /\ locked' = FALSE

\* asyncio.sleep(timeout) returns; the timer takes the lock or queues for it.
TimerExpire(t) ==
  /\ NoWorkerDue
  /\ tasks[t].state = "sleep"
  /\ tasks[t].remaining = 0
  /\ ~tasks[t].cancel
  /\ IF CanAcquireNow(locked, waiters)
     THEN TimerLocked(t, GState)
     ELSE /\ waiters' = Append(waiters, Waiter("timer", t))
          /\ tasks' = [tasks EXCEPT ![t].state = "lock"]
          /\ UNCHANGED <<pending_groups, last_message_time, timers, locked, handed,
                         workers, active_tasks>>
  /\ UNCHANGED <<cfgvars, adds, flush, arrived, admitted, since, last_delay, stopped,
                 shutvars>>

\* A queued timer is woken and takes the lock.
TimerAcquire(t) ==
  /\ NoWorkerDue
  /\ tasks[t].state = "lock"
  /\ ~tasks[t].cancel
  /\ IsWoken(waiters, "timer", t)
  /\ TimerLocked(t, [GState EXCEPT !.ws = RemoveWaiter(@, "timer", t)])
  /\ UNCHANGED <<cfgvars, adds, flush, arrived, admitted, since, last_delay, stopped,
                 shutvars>>

\* A cancelled timer task gets CancelledError at its suspension point (the
\* sleep, or Lock.acquire, which leaves the queue and passes the wake-up on
\* when the lock is free) and ends.
TimerCancelled(t) ==
  /\ NoWorkerDue
  /\ tasks[t].state \in {"sleep", "lock"}
  /\ tasks[t].cancel
  /\ tasks' = [tasks EXCEPT ![t] = DoneTask(tasks[t].chat)]
  /\ waiters' = IF tasks[t].state = "lock"
                THEN IF locked THEN RemoveWaiter(waiters, "timer", t)
                     ELSE WakeUpFirst(RemoveWaiter(waiters, "timer", t))
                ELSE waiters
  /\ UNCHANGED <<cfgvars, pending_groups, last_message_time, timers, locked,
                 adds, flush, arrived, admitted, since, last_delay, handed, stopped,
                 workers, active_tasks, shutvars>>

----------------------------------------------------------------------------
(* flush_all and stop *)

\* "for chat_id in chat_ids: await self._finalize_group_unlocked(...)" over the
\* chats in the given order.
RECURSIVE FlushChats(_, _)
FlushChats(G, order) ==
  IF order = <<>> THEN G
  ELSE FlushChats(
         IF G.pg[Head(order)].present
         THEN FinalizeGroupUnlocked(G, Head(order), [kind |-> "flush", id |-> 0], FALSE)
         ELSE G,
         Tail(order))

\* The orders in which a dict may hold the chats' keys.
ChatOrders == {<<1, 2>>, <<2, 1>>}

FlushLocked(G0, phase) ==
  \E order \in ChatOrders :
    /\ SetG(ReleaseLock(FlushChats(G0, order)))
    /\ locked' = FALSE
    /\ flush' = "idle"
    /\ drain' = phase

\* flush_all is called: it takes the lock at once or queues for it.
FlushAll ==
  /\ NoWorkerDue
  /\ flush = "idle"
  /\ IF CanAcquireNow(locked, waiters)
     THEN FlushLocked(GState, Phase("flushed"))
     ELSE /\ waiters' = Append(waiters, Waiter("flush", 0))
          /\ flush' = "lock"
          /\ drain' = Phase("flushing")
          /\ UNCHANGED <<pending_groups, last_message_time, timers, tasks,
                         locked, handed, workers, active_tasks>>
  /\ UNCHANGED <<cfgvars, adds, arrived, admitted, since, last_delay, stopped,
                 stopping, waiting>>

FlushAcquire ==
  /\ NoWorkerDue
  /\ flush = "lock"
  /\ IsWoken(waiters, "flush", 0)
  /\ FlushLocked([GState EXCEPT !.ws = RemoveWaiter(@, "flush", 0)],
                 IF drain = "flushing" THEN "flushed" ELSE drain)
  /\ UNCHANGED <<cfgvars, adds, arrived, admitted, since, last_delay, stopped,
                 stopping, waiting>>

\* A stop() that forgets the timers without cancelling them.
CancelAll_None(G, chats) == G

\* "for timer in self._timers.values(): timer.cancel()".
RECURSIVE CancelAll(_, _)
CancelAll(G, chats) ==
  IF chats = {} THEN G
  ELSE LET c == CHOOSE x \in chats : TRUE
       IN  CancelAll(IF G.tm[c] # NoTimer THEN CancelTimerTask(G, G.tm[c]) ELSE G,
                     chats \ {c})

\* Task.cancel on each of the given processing tasks.
CancelWorkers(wk, set) ==
  [i \in 1..Len(wk) |-> IF i \in set THEN [wk[i] EXCEPT !.cancel = TRUE] ELSE wk[i]]

Idle == [pc |-> "idle", set |-> {}]
Gathering(set) == [pc |-> "gather", set |-> set]

\* stop() up to its end or to "await asyncio.gather(*self._active_tasks)":
\* without taking the lock, "for timer in self._timers.values(): timer.cancel()",
\* "self._timers.clear()", "for task in self._active_tasks: task.cancel()".
Stop ==
  /\ stopping.pc = "idle"
  /\ LET G1 == [CancelAll(GState, Chats) EXCEPT !.tm = [c \in Chats |-> NoTimer]]
     IN  SetG([G1 EXCEPT !.wk = CancelWorkers(@, G1.at)])
  /\ stopping' = IF active_tasks # {} THEN Gathering(active_tasks) ELSE Idle
  /\ stopped' = TRUE
  /\ drain' = Phase("abandoned")
  /\ UNCHANGED <<cfgvars, locked, adds, flush, arrived, admitted, since, last_delay,
                 waiting>>

\* The gathered tasks have ended: "self._active_tasks.clear()" and stop() returns.
StopReturn ==
  /\ stopping.pc = "gather"
  /\ \A i \in stopping.set : Ended(workers[i])
  /\ active_tasks' = {}
  /\ stopping' = Idle
  /\ UNCHANGED <<cfgvars, pending_groups, last_message_time, timers, tasks, locked,
                 waiters, adds, flush, arrived, admitted, since, last_delay, handed,
                 stopped, workers, waiting, drain>>

\* wait_for_completion(): "if self._active_tasks: await asyncio.gather(...)".
WaitForCompletion ==
  /\ waiting.pc = "idle"
  /\ waiting' = IF active_tasks # {} THEN Gathering(active_tasks) ELSE Idle
  /\ drain' = IF drain = "flushed"
              THEN IF active_tasks # {} THEN "waiting" ELSE "drained"
              ELSE drain
  /\ UNCHANGED <<cfgvars, pending_groups, last_message_time, timers, tasks, locked,
                 waiters, adds, flush, arrived, admitted, since, last_delay, handed,
                 stopped, workers, active_tasks, stopping>>

\* The gathered tasks have ended and wait_for_completion() returns.
WaitReturn ==
  /\ waiting.pc = "gather"
  /\ \A i \in waiting.set : Ended(workers[i])
  /\ waiting' = Idle
  /\ drain' = IF drain = "waiting" THEN "drained" ELSE drain
  /\ UNCHANGED <<cfgvars, pending_groups, last_message_time, timers, tasks, locked,
                 waiters, adds, flush, arrived, admitted, since, last_delay, handed,
                 stopped, workers, active_tasks, stopping>>

----------------------------------------------------------------------------
(* _process_group_wrapper *)

\* A wrapper that lets the callback's exception pass unlogged.
WrapperOutcome_Silent(cb) ==
  CASE cb = "returns" -> "done"
    [] cb = "raises" -> "done"
    [] cb = "hangs" -> "running"

\* "try: await callback(group) except Exception as e: logger.exception(...)":
\* the task ends after the callback returned ("done") or after its exception
\* was logged ("failed"), or stays suspended in the callback ("running").
WrapperOutcome(cb) ==
  CASE cb = "returns" -> "done"
    [] cb = "raises" -> "failed"
    [] cb = "hangs" -> "running"

\* The task's done callback: "self._active_tasks.discard".
Discard(set, i, w) == IF Ended(w) THEN set \ {i} ELSE set

\* A processing task gets its first run.
WorkerRun(i) ==
  /\ i \in 1..Len(workers)
  /\ workers[i].state = "ready"
  /\ ~workers[i].cancel
  /\ LET w == [workers[i] EXCEPT !.state = WrapperOutcome(workers[i].callback)]
     IN  /\ workers' = [workers EXCEPT ![i] = w]
         /\ active_tasks' = Discard(active_tasks, i, w)
  /\ UNCHANGED <<cfgvars, pending_groups, last_message_time, timers, tasks, locked,
                 waiters, adds, flush, arrived, admitted, since, last_delay, handed,
                 stopped, shutvars>>

\* A cancelled processing task gets CancelledError (which "except Exception"
\* does not catch) before its first run or at the callback's suspension point.
WorkerCancelled(i) ==
  /\ i \in 1..Len(workers)
  /\ workers[i].state \in {"ready", "running"}
  /\ workers[i].cancel
  /\ workers' = [workers EXCEPT ![i].state = "cancelled"]
  /\ active_tasks' = active_tasks \ {i}
  /\ UNCHANGED <<cfgvars, pending_groups, last_message_time, timers, tasks, locked,
                 waiters, adds, flush, arrived, admitted, since, last_delay, handed,
                 stopped, shutvars>>

----------------------------------------------------------------------------
(* Time *)

\* Elapsed seconds are kept exactly up to the gap threshold; beyond it only
\* "more than GapSeconds" matters.
Elapse(age) == IF age > GapSeconds THEN age ELSE age + tick

\* No task can take a step: every task has ended or sleeps.
Quiescent ==
  /\ ~locked
  /\ waiters = <<>>
  /\ flush = "idle"
  /\ \A m \in MsgIds : adds[m].pc \in {"idle", "done"}
  /\ \A t \in MsgIds : tasks[t].state \in {"none", "done"}
                       \/ (tasks[t].state = "sleep" /\ ~tasks[t].cancel
                           /\ tasks[t].remaining >= tick)
  /\ NoWorkerDue
  /\ stopping.pc = "idle"
  /\ waiting.pc = "gather" => \E i \in waiting.set : ~Ended(workers[i])

Tick ==
  /\ Quiescent
  /\ tasks' = [t \in MsgIds |->
                 IF tasks[t].state = "sleep"
                 THEN [tasks[t] EXCEPT !.remaining = @ - tick]
                 ELSE tasks[t]]
  /\ last_message_time' = [c \in Chats |->
                             IF last_message_time[c] = NoTime THEN NoTime
                             ELSE Elapse(last_message_time[c])]
  /\ since' = IF since > SinceCap THEN since ELSE since + tick
  /\ UNCHANGED <<cfgvars, pending_groups, timers, locked, waiters, adds, flush,
                 arrived, admitted, last_delay, handed, stopped, workers,
                 active_tasks, shutvars>>

----------------------------------------------------------------------------
(* Specifications *)

\* No _enforce_rate_limit call has been made.
InitRateIdle ==
  /\ rate_now = 0
  /\ request_timestamps = <<>>
  /\ calls = [k \in 1..MaxCalls |-> [pc |-> "idle", wake |-> 0]]
  /\ requests = <<>>

\* No DealExtractor.extract call.
InitExtractIdle ==
  /\ detected_links = <<>>
  /\ pdf_content = NoContent
  /\ fetched_decks = <<>>
  /\ result = NoResult

\* No _fetch_deck call.
InitFetchIdle ==
  /\ link_type = "unknown"
  /\ has_password = FALSE
  /\ docsend_enabled = FALSE
  /\ agent_enabled = FALSE
  /\ attempts = <<>>
  /\ fetched_deck = NoDeck

\* No group is being processed.
InitPathIdle ==
  /\ group_url = [g \in Groups |-> "u"]
  /\ cleanup_after_extract = FALSE
  /\ extracting = [g \in Groups |-> "idle"]
  /\ files = {}
  /\ pending_cleanup = <<>>
  /\ unreadable = {}

\* No detect_links call.
InitDetectIdle ==
  /\ found_urls = <<>>
  /\ links_out = NoLinks
  /\ seen_urls = {}
  /\ history = <<>>

InitTables ==
  /\ pending_groups = [c \in Chats |-> AbsentGroup]
  /\ last_message_time = [c \in Chats |-> NoTime]
  /\ timers = [c \in Chats |-> NoTimer]
  /\ tasks = [t \in MsgIds |-> NoTask]
  /\ locked = FALSE
  /\ waiters = <<>>
  /\ adds = [m \in MsgIds |-> IdleAdd]
  /\ flush = "idle"
  /\ arrived = <<>>
  /\ admitted = <<>>
  /\ since = 0
  /\ last_delay = 0
  /\ handed = <<>>
  /\ stopped = FALSE
  /\ workers = <<>>
  /\ active_tasks = {}
  /\ stopping = Idle
  /\ waiting = Idle
  /\ drain = "none"

\* MessageGrouper.__init__ with timeouts in multiples of 75 seconds.
Init ==
  /\ timeout_seconds = 150
  /\ max_group_size \in 1..MaxSizeBound
  /\ quick_timeout = 75
  /\ tick = 75
  /\ pool = MsgIds
  /\ track = FALSE
  /\ InitTables
  /\ InitRateIdle
  /\ InitDetectIdle
  /\ InitPathIdle
  /\ InitExtractIdle
  /\ InitFetchIdle

\* The same grouper with its processing tasks followed, on the messages of
\* WorkPool.
InitWork ==
  /\ timeout_seconds = 150
  /\ max_group_size = MaxSizeBound
  /\ quick_timeout = 75
  /\ tick = 75
  /\ pool = WorkPool
  /\ track = TRUE
  /\ InitTables
  /\ InitRateIdle
  /\ InitDetectIdle
  /\ InitPathIdle
  /\ InitExtractIdle
  /\ InitFetchIdle

\* DealLoggingBot.setup's MessageGrouper, observed second by second.
InitBot ==
  /\ timeout_seconds = BotTimeoutSeconds
  /\ max_group_size = BotMaxGroupSize
  /\ quick_timeout = BotQuickTimeout
  /\ tick = 1
  /\ pool = MsgIds
  /\ track = FALSE
  /\ InitTables
  /\ InitRateIdle
  /\ InitDetectIdle
  /\ InitPathIdle
  /\ InitExtractIdle
  /\ InitFetchIdle

\* The grouper of Init once add_message for message 4 has returned:
\* conversation 2 has the open group of message 4 and its timer armed; the
\* arrivals, of the messages of AwaitPool, are counted from here on.
InitAwait ==
  /\ timeout_seconds = 150
  /\ max_group_size = MaxSizeBound
  /\ quick_timeout = 75
  /\ tick = 75
  /\ pool = AwaitPool
  /\ track = FALSE
  /\ pending_groups = [c \in Chats |->
                         IF c = 2 THEN GroupAddMessage(EmptyGroup, 4) ELSE AbsentGroup]
  /\ last_message_time = [c \in Chats |-> IF c = 2 THEN 0 ELSE NoTime]
  /\ timers = [c \in Chats |-> IF c = 2 THEN 4 ELSE NoTimer]
  /\ tasks = [t \in MsgIds |->
                IF t = 4
                THEN [state |-> "sleep", chat |-> 2, cancel |-> FALSE,
                      remaining |-> CalculateTimeout(GroupAddMessage(EmptyGroup, 4),
                                                     75, 150)]
                ELSE NoTask]
  /\ locked = FALSE
  /\ waiters = <<>>
  /\ adds = [m \in MsgIds |-> IF m = 4 THEN DoneAdd ELSE IdleAdd]
  /\ flush = "idle"
  /\ arrived = <<>>
  /\ admitted = <<4>>
  /\ since = 0
  /\ last_delay = 0
  /\ handed = <<>>
  /\ stopped = FALSE
  /\ workers = <<>>
  /\ active_tasks = {}
  /\ stopping = Idle
  /\ waiting = Idle
  /\ drain = "none"
  /\ InitRateIdle
  /\ InitDetectIdle
  /\ InitPathIdle
  /\ InitExtractIdle
  /\ InitFetchIdle

TaskStep ==
  \E m \in MsgIds :
    \/ AddAcquire(m)
    \/ AddResume(m)
    \/ TimerExpire(m)
    \/ TimerAcquire(m)
    \/ TimerCancelled(m)

WorkerStep == \E i \in 1..MaxMsgs : WorkerRun(i)

WorkerAbort == \E i \in 1..MaxMsgs : WorkerCancelled(i)

Arrival == \E m \in MsgIds : AddMessage(m)

Next ==
  \/ Arrival
  \/ TaskStep
  \/ FlushAll
  \/ FlushAcquire
  \/ Stop
  \/ Tick

Spec == Init /\ [][Next]_vars

\* The grouper with its processing tasks, stop() and wait_for_completion().
NextWork ==
  \/ Arrival
  \/ TaskStep
  \/ FlushAll
  \/ FlushAcquire
  \/ Stop
  \/ StopReturn
  \/ WaitForCompletion
  \/ WaitReturn
  \/ WorkerStep
  \/ WorkerAbort
  \/ Tick

\* The event loop runs every task that is ready and time advances.
FairnessWork ==
  /\ \A m \in MsgIds :
       /\ WF_vars(AddAcquire(m))
       /\ WF_vars(AddResume(m))
       /\ WF_vars(TimerExpire(m))
       /\ WF_vars(TimerAcquire(m))
       /\ WF_vars(TimerCancelled(m))
  /\ \A i \in 1..MaxMsgs : WF_vars(WorkerRun(i)) /\ WF_vars(WorkerCancelled(i))
  /\ WF_vars(FlushAcquire)
  /\ WF_vars(StopReturn)
  /\ WF_vars(WaitReturn)
  /\ WF_vars(Tick)

WorkSpec == InitWork /\ [][NextWork]_vars /\ FairnessWork

\* The grouper while stop() is never called.  The event loop runs every task
\* that is ready (weak fairness of each task's step) and time advances.
NextLive ==
  \/ Arrival
  \/ TaskStep
  \/ FlushAll
  \/ FlushAcquire
  \/ Tick

Fairness ==
  /\ \A m \in MsgIds :
       /\ WF_vars(AddAcquire(m))
       /\ WF_vars(AddResume(m))
       /\ WF_vars(TimerExpire(m))
       /\ WF_vars(TimerAcquire(m))
       /\ WF_vars(TimerCancelled(m))
  /\ WF_vars(FlushAcquire)
  /\ WF_vars(Tick)

LiveSpec == Init /\ [][NextLive]_vars /\ Fairness

\* The same steps under the same scheduling, from InitAwait.
AwaitSpec == InitAwait /\ [][NextLive]_vars /\ Fairness

\* The bot calls neither flush_all nor stop.
NextBot ==
  \/ Arrival
  \/ TaskStep
  \/ Tick

SpecBot == InitBot /\ [][NextBot]_vars

----------------------------------------------------------------------------
(* PapermarkExtractor._enforce_rate_limit (src/deal_extractor/extractors/   *)
(* papermark.py): the class-level window of request timestamps, shared by  *)
(* every call of every instance.  Times are minutes; a call runs without    *)
(* interruption up to its asyncio.sleep and again from its wake-up.        *)

\* "[ts for ts in _request_timestamps if ts > cutoff]", cutoff = now - window.
Cleanup(ts, now) == SelectSeq(ts, LAMBDA t : t > now - RateWindow)

\* A wait computed from the wrong end of the window.
WaitSeconds_Elapsed(ts, now) == ts[1] - now

\* "wait_seconds = (oldest + self._rate_window - now).total_seconds()" with
\* "oldest = _request_timestamps[0]".
WaitSeconds(ts, now) == ts[1] + RateWindow - now

\* "_request_timestamps.append(datetime.now())"; _enforce_rate_limit returns
\* and _extract_via_api posts the request.
Admit(k, ts) ==
  /\ request_timestamps' = Append(ts, rate_now)
  /\ requests' = Append(requests, [at |-> rate_now, by |-> k])

\* Call k of _enforce_rate_limit, up to its return or to its asyncio.sleep.
RateCall(k) ==
  /\ calls[k].pc = "idle"
  /\ k > 1 => calls[k - 1].pc # "idle"
  /\ rate_now <= MaxCallTime
  /\ LET cleaned == Cleanup(request_timestamps, rate_now)
     IN  IF Len(cleaned) >= RateLimit /\ WaitSeconds(cleaned, rate_now) > 0
         THEN /\ request_timestamps' = cleaned
              /\ calls' = [calls EXCEPT ![k] =
                             [pc |-> "sleep",
                              wake |-> rate_now + WaitSeconds(cleaned, rate_now)]]
              /\ UNCHANGED requests
         ELSE /\ Admit(k, cleaned)
              /\ calls' = [calls EXCEPT ![k].pc = "posted"]
  /\ UNCHANGED <<grouper_vars, detect_vars, path_vars, extract_vars, fetch_vars, rate_now>>

\* asyncio.sleep(wait_seconds) returns: "clean up again after waiting", append,
\* return; the request is posted.
RateWake(k) ==
  /\ calls[k].pc = "sleep"
  /\ rate_now >= calls[k].wake
  /\ Admit(k, Cleanup(request_timestamps, rate_now))
  /\ calls' = [calls EXCEPT ![k].pc = "posted"]
  /\ UNCHANGED <<grouper_vars, detect_vars, path_vars, extract_vars, fetch_vars, rate_now>>

Sleeping == {k \in 1..MaxCalls : calls[k].pc = "sleep"}

\* Time passes when no sleeping call is due, as long as a call sleeps or may
\* still be made.
RateTick ==
  /\ \A k \in Sleeping : calls[k].wake > rate_now
  /\ Sleeping # {} \/ rate_now <= MaxCallTime
  /\ rate_now' = rate_now + tick
  /\ UNCHANGED <<grouper_vars, detect_vars, path_vars, extract_vars, fetch_vars, request_timestamps, calls, requests>>

\* The grouper left aside: no message arrives.
InitGrouperIdle ==
  /\ timeout_seconds = 150
  /\ max_group_size = MaxSizeBound
  /\ quick_timeout = 75
  /\ pool = {}
  /\ track = FALSE
  /\ InitTables

\* The rate limiter observed every 10 minutes.
InitRate ==
  /\ InitGrouperIdle
  /\ tick = 10
  /\ InitRateIdle
  /\ InitDetectIdle
  /\ InitPathIdle
  /\ InitExtractIdle
  /\ InitFetchIdle

NextRate ==
  \/ \E k \in 1..MaxCalls : RateCall(k)
  \/ \E k \in 1..MaxCalls : RateWake(k)
  \/ RateTick

\* The event loop wakes every sleeper that is due and time advances.
FairnessRate ==
  /\ \A k \in 1..MaxCalls : WF_vars(RateWake(k))
  /\ WF_vars(RateTick)

RateSpec == InitRate /\ [][NextRate]_vars /\ FairnessRate

----------------------------------------------------------------------------
(* DealExtractor.extract (src/deal_extractor/__init__.py) and the part of   *)
(* LLMExtractor.extract (src/deal_extractor/llm/extractor.py) that touches  *)
(* the list of fetched decks.                                               *)

\* link_detector.get_all_deck_links(text): up to MaxLinks links.
Urls == <<"A", "B", "C", "D">>
LinkLists == {SubSeq(Urls, 1, n) : n \in 0..MaxLinks}

\* Lengths of the texts a fetch or an attachment may carry.
Contents == {NoContent, 0, 10, ThinThreshold - 1, ThinThreshold}
Errors == {"timeout", "login required"}

\* What _fetch_deck may return for a link.
FetchOutcomes(url) ==
  [url : {url}, success : {TRUE}, content : Contents, error : {NoError}]
    \cup [url : {url}, success : {FALSE}, content : {NoContent}, error : Errors]

\* Python truth value of an Optional[str]: neither None nor "".
Truthy(content) == content # NoContent /\ content > 0

\* 'FetchedDeck(url="[PDF Attachment]", success=True, content=pdf_content)'.
PdfAttachment(pdf) ==
  [url |-> "[PDF Attachment]", success |-> TRUE, content |-> pdf, error |-> NoError]

\* The caller's list after LLMExtractor.extract: "fetched_decks or []" keeps
\* a non-empty list as the same object and the attachment is appended to it.
AfterLLMExtract(decks, pdf) ==
  IF Truthy(pdf) /\ decks # <<>> THEN Append(decks, PdfAttachment(pdf)) ELSE decks

\* Successes that carry a plausible text only.
CountSuccess_Hard(decks) ==
  Len(SelectSeq(decks, LAMBDA d : d.success /\ d.content >= ThinThreshold))

\* "len([d for d in fetched_decks if d.success])".
CountSuccess(decks) == Len(SelectSeq(decks, LAMBDA d : d.success))

\* The LLM layer's count, taken after the attachment has been appended.
DecksFetched_LLMLayer(before, after) == CountSuccess(after)

\* decks_fetched is computed before the LLM extraction and overrides the LLM
\* layer's value.
DecksFetched(before, after) == CountSuccess(before)

\* f"{d.url}: {d.error}"
ErrorReason(d) == [url |-> d.url, says |-> "error", detail |-> d.error]
\* f"{d.url}: thin content ({len(d.content)} chars, may be login page)"
ThinReason(d) == [url |-> d.url, says |-> "thin content", detail |-> d.content]

\* "d.success and d.content and len(d.content) < 500"
IsThin(d) == d.success /\ Truthy(d.content) /\ d.content < ThinThreshold

ThinDecks(decks) == SelectSeq(decks, IsThin)

\* '[f"{d.url}: {d.error}" for d in fetched_decks if not d.success]'
ErrorReasons(decks) ==
  LET failed == SelectSeq(decks, LAMBDA d : ~d.success)
  IN  [i \in 1..Len(failed) |-> ErrorReason(failed[i])]

\* The reasons appended for the thin decks, in order.
ThinReasons(thin) == [i \in 1..Len(thin) |-> ThinReason(thin[i])]

\* Step 4 of extract: the deck stats and the review flag.
Aggregate(links, before, after) ==
  LET fetched == DecksFetched(before, after)
      none == Len(links) > 0 /\ fetched = 0
      failures == IF none THEN ErrorReasons(after) ELSE <<>>
      thin == ThinDecks(after)
  IN  [returned |-> TRUE,
       decks_detected |-> Len(links),
       decks_fetched |-> fetched,
       needs_review |-> none \/ thin # <<>>,
       review_reasons |-> failures \o ThinReasons(thin),
       fetched_decks |-> after]

\* "deck = await self._fetch_deck(link, password); fetched_decks.append(deck)"
FetchDeck ==
  /\ result = NoResult
  /\ Len(fetched_decks) < Len(detected_links)
  /\ \E deck \in FetchOutcomes(detected_links[Len(fetched_decks) + 1]) :
       fetched_decks' = Append(fetched_decks, deck)
  /\ UNCHANGED <<grouper_vars, detect_vars, path_vars, rate_vars, fetch_vars, detected_links, pdf_content, result>>

\* Steps 3 and 4 of extract, once every link has been fetched.
ExtractReturn ==
  /\ result = NoResult
  /\ Len(fetched_decks) = Len(detected_links)
  /\ fetched_decks' = AfterLLMExtract(fetched_decks, pdf_content)
  /\ result' = Aggregate(detected_links, fetched_decks, fetched_decks')
  /\ UNCHANGED <<grouper_vars, detect_vars, path_vars, rate_vars, fetch_vars, detected_links, pdf_content>>

\* One call of extract: any links, any attachment.
InitExtract ==
  /\ InitGrouperIdle
  /\ tick = 10
  /\ InitRateIdle
  /\ InitDetectIdle
  /\ InitPathIdle
  /\ InitFetchIdle
  /\ detected_links \in LinkLists
  /\ pdf_content \in Contents
  /\ fetched_decks = <<>>
  /\ result = NoResult

NextExtract == FetchDeck \/ ExtractReturn

ExtractSpec == InitExtract /\ [][NextExtract]_vars

----------------------------------------------------------------------------
(* DealExtractor._fetch_deck (src/deal_extractor/__init__.py) and what the  *)
(* extractors it made can report.  A text is represented by its length.   *)

\* LinkType values that _fetch_deck distinguishes; "pitch_com" stands for
\* every type that takes the final else branch.
FetchTypes == {"docsend", "pdf_direct", "google_drive", "papermark", "notion", "pitch_com"}

\* A text long enough to be plausible.
SomeText == ThinThreshold

\* FetchedDeck(success=False, error=e), with or without a downloaded PDF.
Failed(e, path) ==
  [returned |-> TRUE, success |-> FALSE, content |-> NoContent, pdf_path |-> path, error |-> e]
\* FetchedDeck(success=True, content=c, pdf_path=...).
Fetched(c, path) ==
  [returned |-> TRUE, success |-> TRUE, content |-> c, pdf_path |-> path, error |-> NoError]

\* One extractor called by _fetch_deck and what it reported.
Call(by, gave) == [by |-> by, gave |-> gave]
\* One way a fetch can go: the made made and the deck returned.
Way(made, d) == [calls |-> made, deck |-> d]

\* "except Exception as e: return FetchedDeck(url, success=False, error=str(e))"
Raised == Failed("exception", FALSE)

\* BrowserAgentExtractor.extract: text of 50 characters or more, or a failure.
AgentWays(made) ==
  { Way(Append(made, Call("browser_agent", "text")), Fetched(SomeText, FALSE)),
    Way(Append(made, Call("browser_agent", "failed")),
        Failed("Browser agent extracted too little content", FALSE)) }

\* "if not result.success and self.browser_agent_extractor:
\*      result = await self.browser_agent_extractor.extract(link.url, password)"
Retry(w) == IF ~w.deck.success /\ agent_enabled THEN AgentWays(w.calls) ELSE {w}

\* "if result.success and result.pdf_path: pdf_result = pdf_extractor.extract"
\* in the DocSend and Papermark branches: success needs non-empty text.
ExtractText(made) ==
  { Way(Append(made, Call("pdf_extractor", "text")), Fetched(SomeText, TRUE)),
    Way(Append(made, Call("pdf_extractor", "empty")),
        Failed("PDF downloaded but text extraction failed", TRUE)),
    Way(Append(made, Call("pdf_extractor", "failed")),
        Failed("PDF downloaded but text extraction failed", TRUE)),
    Way(Append(made, Call("pdf_extractor", "raises")), Raised) }

\* DocSendExtractor.extract in AUTO mode: the API first; an API error that
\* names the passcode ends the attempt, any other error goes to Playwright.
DocSendWays ==
  { Way(<<Call("docsend_api", "pdf")>>, Fetched(NoContent, TRUE)),
    Way(<<Call("docsend_api", "passcode")>>, Failed("Document requires password", FALSE)),
    Way(<<Call("docsend_api", "failed"), Call("docsend_browser", "pdf")>>,
        Fetched(NoContent, TRUE)),
    Way(<<Call("docsend_api", "failed"), Call("docsend_browser", "failed")>>,
        Failed("Playwright extraction failed", FALSE)) }

\* GenericWebExtractor.extract: page text, a PDF response whose extraction
\* succeeded (with or without text), or a failure.
GenericWays(made) ==
  { Way(Append(made, Call("generic", "text")), Fetched(SomeText, FALSE)),
    Way(Append(made, Call("generic", "pdf text")), Fetched(SomeText, TRUE)),
    Way(Append(made, Call("generic", "pdf empty")), Fetched(0, TRUE)),
    Way(Append(made, Call("generic", "failed")),
        Failed("Failed to extract content (both httpx and Jina Reader failed)", FALSE)) }

\* PapermarkExtractor.extract: the DeckExtract API, else the generic extractor.
PapermarkWays ==
  {Way(<<Call("papermark_api", "pdf")>>, Fetched(NoContent, TRUE))}
    \cup GenericWays(<<Call("papermark_api", "failed")>>)

\* DealExtractor._fetch_pdf_url: download, then PDFExtractor; every exception
\* is caught inside.
PdfUrlWays ==
  { Way(<<Call("pdf_download", "failed")>>, Failed("PDF download failed", FALSE)),
    Way(<<Call("pdf_download", "pdf"), Call("pdf_extractor", "text")>>,
        Fetched(SomeText, TRUE)),
    Way(<<Call("pdf_download", "pdf"), Call("pdf_extractor", "empty")>>,
        Fetched(0, TRUE)),
    Way(<<Call("pdf_download", "pdf"), Call("pdf_extractor", "failed")>>,
        Failed("PDF extraction failed", FALSE)),
    Way(<<Call("pdf_download", "pdf"), Call("pdf_extractor", "raises")>>,
        Failed("PDF download failed", FALSE)) }

\* GoogleSlidesExtractor.extract: the exported PDF is deleted before the
\* result is built, and the result is a success whatever the text extraction
\* gave.
GoogleWays ==
  { Way(<<Call("google_export", "failed")>>,
        Failed("Google doc is not publicly accessible", FALSE)),
    Way(<<Call("google_export", "pdf"), Call("pdf_extractor", "text")>>,
        Fetched(SomeText, FALSE)),
    Way(<<Call("google_export", "pdf"), Call("pdf_extractor", "empty")>>,
        Fetched(0, FALSE)),
    Way(<<Call("google_export", "pdf"), Call("pdf_extractor", "failed")>>,
        Fetched(NoContent, FALSE)),
    Way(<<Call("google_export", "pdf"), Call("pdf_extractor", "raises")>>,
        Failed("Export failed", FALSE)) }

\* The DocSend branch of _fetch_deck.
DocSendBranch ==
  IF ~docsend_enabled
  THEN {Way(<<>>, Failed("DocSend extraction not configured (no email)", FALSE))}
  ELSE UNION { IF w.deck.success THEN ExtractText(w.calls) ELSE Retry(w) : w \in DocSendWays }

\* The Papermark branch of _fetch_deck.
PapermarkBranch ==
  UNION { IF w.deck.success /\ w.deck.pdf_path
          THEN ExtractText(w.calls) ELSE {w} : w \in PapermarkWays }

\* Every way _fetch_deck can go for this link and configuration.
FetchWays ==
  CASE link_type = "docsend" -> DocSendBranch
    [] link_type = "pdf_direct" -> PdfUrlWays
    [] link_type = "google_drive" -> GoogleWays
    [] link_type = "papermark" -> PapermarkBranch
    [] OTHER -> UNION { Retry(w) : w \in GenericWays(<<>>) }

\* One call of _fetch_deck, from its first line to its return.
FetchDeckCall ==
  /\ fetched_deck = NoDeck
  /\ \E w \in FetchWays :
       /\ attempts' = w.calls
       /\ fetched_deck' = w.deck
  /\ UNCHANGED <<grouper_vars, detect_vars, path_vars, rate_vars, extract_vars,
                 link_type, has_password, docsend_enabled, agent_enabled>>

\* Any link, with or without a password, any configuration of the extractor.
InitFetch ==
  /\ InitGrouperIdle
  /\ tick = 10
  /\ InitRateIdle
  /\ InitDetectIdle
  /\ InitPathIdle
  /\ InitExtractIdle
  /\ link_type \in FetchTypes
  /\ has_password \in BOOLEAN
  /\ docsend_enabled \in BOOLEAN
  /\ agent_enabled \in BOOLEAN
  /\ attempts = <<>>
  /\ fetched_deck = NoDeck

NextFetch == FetchDeckCall

FetchSpec == InitFetch /\ [][NextFetch]_vars

----------------------------------------------------------------------------
(* The files of DealExtractor._fetch_pdf_url and the cleanup of             *)
(* DealExtractor.extract, for two groups processed by the one DealExtractor *)
(* of the bot (src/bot/main.py), each with one direct-PDF link.             *)

\* The urls the two groups may hold.
PdfUrls == {"u", "v"}

\* "url_hash = hashlib.md5(url.encode()).hexdigest()[:12];
\*  pdf_path = self.temp_dir / "pdf" / f"downloaded_{url_hash}.pdf"":
\* the path is a function of the url alone.
PdfPath(url) == <<"pdf", "downloaded", url>>

\* The group's extract call is between its first line and its return.
InFlight(g) == extracting[g] \notin {"idle", "returned"}

\* extract is called for group g: "self._pending_cleanup = []", then
\* _fetch_pdf_url awaits the download.
ExtractStart(g) ==
  /\ extracting[g] = "idle"
  /\ extracting' = [extracting EXCEPT ![g] = "download"]
  /\ pending_cleanup' = <<>>
  /\ UNCHANGED <<grouper_vars, detect_vars, rate_vars, extract_vars, fetch_vars,
                 group_url, cleanup_after_extract, files, unreadable>>

\* "response = await client.get(url)" returns and the PDF is written; the
\* "async with" block then closes the client, a suspension point.
SavePdf(g) ==
  /\ extracting[g] = "download"
  /\ files' = files \cup {PdfPath(group_url[g])}
  /\ extracting' = [extracting EXCEPT ![g] = "saved"]
  /\ UNCHANGED <<grouper_vars, detect_vars, rate_vars, extract_vars, fetch_vars,
                 group_url, cleanup_after_extract, pending_cleanup, unreadable>>

\* "self._pending_cleanup.append(pdf_path)", "pdf_extractor.extract(pdf_path)"
\* reads the file, _fetch_pdf_url returns, extract appends deck.pdf_path
\* of a success and awaits the LLM extraction.
ReadPdf(g) ==
  /\ extracting[g] = "saved"
  /\ LET path == PdfPath(group_url[g])
         ok == path \in files
     IN  /\ unreadable' = IF ok THEN unreadable ELSE unreadable \cup {g}
         /\ pending_cleanup' =
              IF ok THEN pending_cleanup \o <<path, path>>
                    ELSE Append(pending_cleanup, path)
  /\ extracting' = [extracting EXCEPT ![g] = "llm"]
  /\ UNCHANGED <<grouper_vars, detect_vars, rate_vars, extract_vars, fetch_vars,
                 group_url, cleanup_after_extract, files>>

\* The paths in a list.
PathsIn(list) == {list[i] : i \in 1..Len(list)}

\* extract returns: "finally: if self.cleanup_after_extract:
\* self._cleanup_pending_files()" unlinks every pending path and empties the list.
ExtractEnd(g) ==
  /\ extracting[g] = "llm"
  /\ extracting' = [extracting EXCEPT ![g] = "returned"]
  /\ IF cleanup_after_extract
     THEN /\ files' = files \ PathsIn(pending_cleanup)
          /\ pending_cleanup' = <<>>
     ELSE UNCHANGED <<files, pending_cleanup>>
  /\ UNCHANGED <<grouper_vars, detect_vars, rate_vars, extract_vars, fetch_vars,
                 group_url, cleanup_after_extract, unreadable>>

\* Two groups, each with one direct-PDF link, with or without immediate cleanup.
InitPath ==
  /\ InitGrouperIdle
  /\ tick = 10
  /\ InitRateIdle
  /\ InitDetectIdle
  /\ InitExtractIdle
  /\ InitFetchIdle
  /\ group_url \in [Groups -> PdfUrls]
  /\ cleanup_after_extract \in BOOLEAN
  /\ extracting = [g \in Groups |-> "idle"]
  /\ files = {}
  /\ pending_cleanup = <<>>
  /\ unreadable = {}

NextPath ==
  \/ \E g \in Groups : ExtractStart(g)
  \/ \E g \in Groups : SavePdf(g)
  \/ \E g \in Groups : ReadPdf(g)
  \/ \E g \in Groups : ExtractEnd(g)

PathSpec == InitPath /\ [][NextPath]_vars

----------------------------------------------------------------------------
(* LinkDetector (src/deal_extractor/links/detector.py).  A url is the       *)
(* sequence of its characters; every pattern of the detector is a literal,  *)
(* so that re.search is a search for a substring.                           *)

\* The urls that the texts hold, by name.
Url ==
  [ \* "https://docsend.com/view/abc"
    DocsendAbc |->
    <<"h", "t", "t", "p", "s", ":", "/", "/", "d", "o", "c", "s", "e", "n",
    "d", ".", "c", "o", "m", "/", "v", "i", "e", "w", "/", "a", "b", "c">>,
    \* "https://docsend.com/view/abc/"
    DocsendAbcSlash |->
    <<"h", "t", "t", "p", "s", ":", "/", "/", "d", "o", "c", "s", "e", "n",
    "d", ".", "c", "o", "m", "/", "v", "i", "e", "w", "/", "a", "b", "c",
    "/">>,
    \* "https://docsend.com/view/def"
    DocsendDef |->
    <<"h", "t", "t", "p", "s", ":", "/", "/", "d", "o", "c", "s", "e", "n",
    "d", ".", "c", "o", "m", "/", "v", "i", "e", "w", "/", "d", "e", "f">>,
    \* "https://click.example.com/x?url=https%3A%2F%2Fdocsend.com%2Fview%2Fabc"
    ClickDocsend |->
    <<"h", "t", "t", "p", "s", ":", "/", "/", "c", "l", "i", "c", "k", ".",
    "e", "x", "a", "m", "p", "l", "e", ".", "c", "o", "m", "/", "x", "?",
    "u", "r", "l", "=", "h", "t", "t", "p", "s", "%", "3", "A", "%", "2",
    "F", "%", "2", "F", "d", "o", "c", "s", "e", "n", "d", ".", "c", "o",
    "m", "%", "2", "F", "v", "i", "e", "w", "%", "2", "F", "a", "b", "c">>,
    \* "https://click.example.com/x"
    ClickPlain |->
    <<"h", "t", "t", "p", "s", ":", "/", "/", "c", "l", "i", "c", "k", ".",
    "e", "x", "a", "m", "p", "l", "e", ".", "c", "o", "m", "/", "x">>,
    \* "https://click.example.com/x?goto=abc"
    ClickNoHttp |->
    <<"h", "t", "t", "p", "s", ":", "/", "/", "c", "l", "i", "c", "k", ".",
    "e", "x", "a", "m", "p", "l", "e", ".", "c", "o", "m", "/", "x", "?",
    "g", "o", "t", "o", "=", "a", "b", "c">>,
    \* "https://loom.com/share/1"
    LoomShare |->
    <<"h", "t", "t", "p", "s", ":", "/", "/", "l", "o", "o", "m", ".", "c",
    "o", "m", "/", "s", "h", "a", "r", "e", "/", "1">>,
    \* "https://cal.com/pitch"
    CalPitch |->
    <<"h", "t", "t", "p", "s", ":", "/", "/", "c", "a", "l", ".", "c", "o",
    "m", "/", "p", "i", "t", "c", "h">>,
    \* "https://drive.google.com/file/d/1/deck"
    DriveFileDeck |->
    <<"h", "t", "t", "p", "s", ":", "/", "/", "d", "r", "i", "v", "e", ".",
    "g", "o", "o", "g", "l", "e", ".", "c", "o", "m", "/", "f", "i", "l",
    "e", "/", "d", "/", "1", "/", "d", "e", "c", "k">>,
    \* "https://docs.google.com/presentation/d/1"
    DocsSlides |->
    <<"h", "t", "t", "p", "s", ":", "/", "/", "d", "o", "c", "s", ".", "g",
    "o", "o", "g", "l", "e", ".", "c", "o", "m", "/", "p", "r", "e", "s",
    "e", "n", "t", "a", "t", "i", "o", "n", "/", "d", "/", "1">>,
    \* "https://acme.io/deck,"
    SiteDeckComma |->
    <<"h", "t", "t", "p", "s", ":", "/", "/", "a", "c", "m", "e", ".", "i",
    "o", "/", "d", "e", "c", "k", ",">>,
    \* "https://acme.io/a.PDF"
    SitePdf |->
    <<"h", "t", "t", "p", "s", ":", "/", "/", "a", "c", "m", "e", ".", "i",
    "o", "/", "a", ".", "P", "D", "F">>,
    \* "http://[bad/deck"
    BadHostDeck |->
    <<"h", "t", "t", "p", ":", "/", "/", "[", "b", "a", "d", "/", "d", "e",
    "c", "k">> ]

\* The urls a text may hold.
UrlPool == {Url[name] : name \in DOMAIN Url}

StartsWith(s, prefix) ==
  /\ Len(s) >= Len(prefix)
  /\ SubSeq(s, 1, Len(prefix)) = prefix

\* re.search(pattern, s) for a literal pattern; "sub in s".
Contains(s, sub) ==
  \E i \in 1..(Len(s) - Len(sub) + 1) : SubSeq(s, i, i + Len(sub) - 1) = sub

\* Index of the first character of s that is in chars, Len(s) + 1 if none.
FirstOf(s, chars) ==
  IF \E i \in 1..Len(s) : s[i] \in chars
  THEN CHOOSE i \in 1..Len(s) : s[i] \in chars /\ \A j \in 1..(i - 1) : s[j] \notin chars
  ELSE Len(s) + 1

\* Index at which sub first starts in s, Len(s) + 1 if nowhere.
FindSub(s, sub) ==
  IF Contains(s, sub)
  THEN CHOOSE i \in 1..Len(s) :
         /\ i + Len(sub) - 1 <= Len(s)
         /\ SubSeq(s, i, i + Len(sub) - 1) = sub
         /\ \A j \in 1..(i - 1) : SubSeq(s, j, j + Len(sub) - 1) # sub
  ELSE Len(s) + 1

\* s[i:] of Python, i counted from 1.
From(s, i) == SubSeq(s, i, Len(s))

\* 'url.rstrip(".,;:!?")'
RStrip(s, chars) ==
  LET keep == {i \in 1..Len(s) : s[i] \notin chars}
  IN  IF keep = {} THEN <<>>
      ELSE SubSeq(s, 1, CHOOSE i \in keep : \A j \in keep : j <= i)

\* urlparse(url): netloc, path, query and fragment of "scheme://netloc/path?query#fragment".
UrlParse(url) ==
  LET rest == From(url, FindSub(url, <<":", "/", "/">>) + 3)
      n == FirstOf(rest, {"/", "?", "#"})
      tail == From(rest, n)
      p == FirstOf(tail, {"?", "#"})
      after == From(tail, p)
      hasq == after # <<>> /\ after[1] = "?"
      q == IF hasq THEN SubSeq(after, 2, FirstOf(after, {"#"}) - 1) ELSE <<>>
      f == From(after, FirstOf(after, {"#"}) + 1)
  IN  [netloc |-> SubSeq(rest, 1, n - 1), path |-> SubSeq(tail, 1, p - 1),
       query |-> q, fragment |-> f]

\* What a percent escape stands for (the escapes that occur in the urls here).
Escapes ==
  (<<"%", "3", "A">> :> ":") @@ (<<"%", "2", "F">> :> "/") @@ (<<"%", "3", "F">> :> "?")
    @@ (<<"%", "3", "D">> :> "=") @@ (<<"%", "2", "5">> :> "%")

RECURSIVE Unquote(_)
\* urllib.parse.unquote: every known escape is replaced, the rest is kept.
Unquote(s) ==
  IF s = <<>> THEN <<>>
  ELSE IF Len(s) >= 3 /\ SubSeq(s, 1, 3) \in DOMAIN Escapes
       THEN <<Escapes[SubSeq(s, 1, 3)]>> \o Unquote(From(s, 4))
       ELSE <<s[1]>> \o Unquote(Tail(s))

RECURSIVE Split(_, _)
\* s.split(sep) for a single character.
Split(s, sep) ==
  LET i == FirstOf(s, {sep})
  IN  IF i > Len(s) THEN <<s>>
      ELSE <<SubSeq(s, 1, i - 1)>> \o Split(From(s, i + 1), sep)

\* parse_qs(query): the name=value pairs with a non-blank value, in order,
\* names and values unquoted.
ParseQs(query) ==
  LET pairs == SelectSeq(Split(query, "&"),
                         LAMBDA kv : FirstOf(kv, {"="}) < Len(kv))
  IN  [i \in 1..Len(pairs) |->
         LET e == FirstOf(pairs[i], {"="})
         IN  [name |-> Unquote(SubSeq(pairs[i], 1, e - 1)),
              value |-> Unquote(From(pairs[i], e + 1))]]

\* REDIRECT_DOMAINS
RedirectDomains ==
  {<<"g", "e", "t", "c", "a", "b", "a", "l", ".", "c", "o", "m">>, <<"c", "l", "i", "c", "k", ".">>, <<"t", "r", "a", "c", "k", ".">>, <<"r", "e", "d", "i", "r", "e", "c", "t", ".">>,
   <<"l", "i", "n", "k", ".">>, <<"g", "o", ".">>, <<"m", "a", "i", "l", "c", "h", "i", "m", "p", ".", "c", "o", "m">>,
   <<"h", "u", "b", "s", "p", "o", "t", ".", "c", "o", "m">>, <<"s", "e", "n", "d", "g", "r", "i", "d", ".", "n", "e", "t">>}

\* url_params, in the order they are tried.
UrlParams ==
  <<<<"u", "r", "l">>, <<"r", "e", "d", "i", "r", "e", "c", "t">>, <<"t", "a", "r", "g", "e", "t">>,
    <<"d", "e", "s", "t">>, <<"d", "e", "s", "t", "i", "n", "a", "t", "i", "o", "n">>,
    <<"l", "i", "n", "k">>, <<"g", "o", "t", "o">>>>

\* urlparse(url) raises ValueError ("Invalid IPv6 URL"): one bracket of a
\* bracketed host is in the netloc without the other.
UrlParseRaises(url) ==
  \E netloc \in {UrlParse(url).netloc} :
    (\E i \in 1..Len(netloc) : netloc[i] = "[") # (\E i \in 1..Len(netloc) : netloc[i] = "]")

\* "is_redirect = any(re.search(pattern, domain) for pattern in REDIRECT_DOMAINS)"
IsRedirect(url) ==
  \E pattern \in RedirectDomains : Contains(Lower(UrlParse(url).netloc), pattern)

\* 'unquote(query_params[param][0])' for the parameters that are present.
Targets(url) ==
  LET qs == ParseQs(UrlParse(url).query)
      First(name) == qs[CHOOSE i \in 1..Len(qs) :
                          qs[i].name = name /\ \A j \in 1..(i - 1) : qs[j].name # name]
      present == SelectSeq(UrlParams, LAMBDA name : \E i \in 1..Len(qs) : qs[i].name = name)
  IN  [i \in 1..Len(present) |-> Unquote(First(present[i]).value)]

\* No target: extract_url_from_redirect returns None.
NoTarget == <<>>

\* An unwrapping that takes the value of any parameter.
ExtractUrlFromRedirect_AnyValue(url) ==
  LET t == Targets(url)
  IN  IF IsRedirect(url) /\ t # <<>> THEN t[1] ELSE NoTarget

\* extract_url_from_redirect: the first listed parameter whose value starts
\* with "http".
ExtractUrlFromRedirect(url) ==
  LET t == SelectSeq(Targets(url), LAMBDA v : StartsWith(v, <<"h", "t", "t", "p">>))
  IN  IF UrlParseRaises(url) THEN NoTarget
      ELSE IF IsRedirect(url) /\ t # <<>> THEN t[1] ELSE NoTarget

\* DOMAIN_PATTERNS, in the order of the dict.
DomainPatterns ==
  << [type |-> "docsend", patterns |-> {<<"d", "o", "c", "s", "e", "n", "d", ".", "c", "o", "m">>}],
     [type |-> "papermark", patterns |-> {<<"p", "a", "p", "e", "r", "m", "a", "r", "k", ".", "i", "o">>,
                                           <<"p", "a", "p", "e", "r", "m", "a", "r", "k", ".", "c", "o", "m">>}],
     [type |-> "pitch_com", patterns |-> {<<"p", "i", "t", "c", "h", ".", "c", "o", "m">>}],
     [type |-> "notion", patterns |-> {<<"n", "o", "t", "i", "o", "n", ".", "s", "o">>,
                                        <<"n", "o", "t", "i", "o", "n", ".", "s", "i", "t", "e">>}],
     [type |-> "google_drive",
      patterns |-> {<<"d", "r", "i", "v", "e", ".", "g", "o", "o", "g", "l", "e", ".", "c", "o", "m">>,
                    <<"d", "o", "c", "s", ".", "g", "o", "o", "g", "l", "e", ".", "c", "o", "m">>}],
     [type |-> "dropbox", patterns |-> {<<"d", "r", "o", "p", "b", "o", "x", ".", "c", "o", "m">>}],
     [type |-> "loom", patterns |-> {<<"l", "o", "o", "m", ".", "c", "o", "m">>}],
     [type |-> "youtube", patterns |-> {<<"y", "o", "u", "t", "u", "b", "e", ".", "c", "o", "m">>,
                                         <<"y", "o", "u", "t", "u", ".", "b", "e">>}],
     [type |-> "dune", patterns |-> {<<"d", "u", "n", "e", ".", "c", "o", "m">>}],
     [type |-> "calendar", patterns |-> {<<"c", "a", "l", ".", "c", "o", "m">>,
                                          <<"c", "a", "l", "e", "n", "d", "l", "y", ".", "c", "o", "m">>}],
     [type |-> "linkedin", patterns |-> {<<"l", "i", "n", "k", "e", "d", "i", "n", ".", "c", "o", "m">>}],
     [type |-> "twitter", patterns |-> {<<"t", "w", "i", "t", "t", "e", "r", ".", "c", "o", "m">>,
                                         <<"x", ".", "c", "o", "m">>}] >>

\* A classification that takes a url that cannot be parsed as it is written.
ClassifyUrl_AsWritten(url) ==
  LET parsed == UrlParse(url)
      domain == Lower(parsed.netloc)
      hits == SelectSeq(DomainPatterns,
                        LAMBDA e : \E pattern \in e.patterns : Contains(domain, pattern))
  IN  IF hits # <<>> THEN hits[1].type
      ELSE IF EndsWith(Lower(parsed.path), DotPdf) THEN "pdf_direct"
      ELSE "website"

\* classify_url: the first type with a pattern found in the domain, else
\* pdf_direct for a path ending in ".pdf", else website; unknown when urlparse
\* raises ("except Exception: return LinkType.UNKNOWN").
ClassifyUrl(url) ==
  LET parsed == UrlParse(url)
      domain == Lower(parsed.netloc)
      hits == SelectSeq(DomainPatterns,
                        LAMBDA e : \E pattern \in e.patterns : Contains(domain, pattern))
  IN  IF UrlParseRaises(url) THEN "unknown"
      ELSE IF hits # <<>> THEN hits[1].type
      ELSE IF EndsWith(Lower(parsed.path), DotPdf) THEN "pdf_direct"
      ELSE "website"

\* DECK_PATH_PATTERNS
DeckPathPatterns ==
  {<<"/", "d", "e", "c", "k">>, <<"/", "p", "i", "t", "c", "h">>,
   <<"/", "p", "r", "e", "s", "e", "n", "t", "a", "t", "i", "o", "n">>,
   <<"/", "i", "n", "v", "e", "s", "t", "o", "r">>, <<"/", "f", "u", "n", "d", "r", "a", "i", "s">>}

\* is_deck_link with the keyword test applied to calendar links as well.
IsDeckLink_KeywordsFirst(url, type) ==
  \/ type \in {"docsend", "papermark", "pitch_com", "pdf_direct", "loom"}
  \/ \E pattern \in DeckPathPatterns : Contains(Lower(UrlParse(url).path), pattern)

\* is_deck_link; the keyword test is skipped when urlparse raises
\* ("except Exception: pass").
IsDeckLink(url, type) ==
  IF type \in {"docsend", "papermark", "pitch_com"} THEN TRUE
  ELSE IF type = "pdf_direct" THEN TRUE
  ELSE IF type = "loom" THEN TRUE
  ELSE IF type = "google_drive"
          /\ (Contains(url, <<"/", "p", "r", "e", "s", "e", "n", "t", "a", "t", "i", "o", "n", "/">>)
                \/ Contains(url, <<"/", "d", "o", "c", "u", "m", "e", "n", "t", "/">>))
       THEN TRUE
  ELSE IF type = "calendar" THEN FALSE
  ELSE IF UrlParseRaises(url) THEN FALSE
  ELSE \E pattern \in DeckPathPatterns : Contains(Lower(UrlParse(url).path), pattern)

\* PRIORITY_MAP
PriorityMap ==
  [docsend |-> 100, papermark |-> 90, pitch_com |-> 88, pdf_direct |-> 85,
   google_drive |-> 70, dropbox |-> 60, notion |-> 50, loom |-> 40, youtube |-> 35,
   dune |-> 15, website |-> 10, calendar |-> 3, linkedin |-> 5, twitter |-> 5,
   unknown |-> 1]

\* "if is_deck: priority += 50"
DeckBoost == 50

\* DetectedLink(url, link_type, is_deck, priority) as detect_links builds it.
Detect(url) ==
  LET type == ClassifyUrl(url)
      is_deck == IsDeckLink(url, type)
  IN  [url |-> url, link_type |-> type, is_deck |-> is_deck,
       priority |-> PriorityMap[type] + (IF is_deck THEN DeckBoost ELSE 0)]

\* BaseExtractor.normalize_url (src/deal_extractor/extractors/base.py):
\* 'url.rstrip("/")', then the part before the first "?" and "#", then
\* "https://" in front unless the url starts with "http".
NormalizeUrl(url) ==
  LET stripped == RStrip(url, {"/"})
      cut == SubSeq(stripped, 1, FirstOf(stripped, {"?", "#"}) - 1)
  IN  IF StartsWith(cut, <<"h", "t", "t", "p">>) THEN cut ELSE <<"h", "t", "t", "p", "s", ":", "/", "/">> \o cut

\* The url detect_links goes on with: punctuation stripped, redirect unwrapped.
Cleaned(url) ==
  CHOOSE cleaned \in
    {IF ExtractUrlFromRedirect(stripped) # NoTarget
     THEN ExtractUrlFromRedirect(stripped) ELSE stripped :
       stripped \in {RStrip(url, {".", ",", ";", ":", "!", "?"})}} : TRUE

\* Cleaned and Detect on the urls of the pool, worked out once.
CleanedUrl == [url \in UrlPool |-> Cleaned(url)]

DetectedLinkFor == [url \in {CleanedUrl[u] : u \in UrlPool} |-> Detect(url)]

RECURSIVE Unique(_, _)
\* "if url in seen_urls: continue; seen_urls.add(url)"
Unique(urls, seen) ==
  IF urls = <<>> THEN <<>>
  ELSE IF Head(urls) \in seen THEN Unique(Tail(urls), seen)
  ELSE <<Head(urls)>> \o Unique(Tail(urls), seen \cup {Head(urls)})

\* An order that puts the lower priority first.
Lt_Ascending(a, b) == a.priority < b.priority

\* DetectedLink.__lt__: "return self.priority > other.priority"
Lt(a, b) == a.priority > b.priority

RECURSIVE Sorted(_)
\* sorted(links): each element goes behind every element that is not greater
\* under __lt__, so that equal elements keep their order.
Sorted(list) ==
  IF list = <<>> THEN <<>>
  ELSE LET front == Sorted(SubSeq(list, 1, Len(list) - 1))
           x == list[Len(list)]
           k == Cardinality({i \in 1..Len(front) : ~Lt(x, front[i])})
       IN  SubSeq(front, 1, k) \o <<x>> \o SubSeq(front, k + 1, Len(front))

\* A seen_urls that is kept from one call to the next.
SeenAtStart_Kept == seen_urls

\* "seen_urls = set()": every call starts with a set of its own.
SeenAtStart == {}

\* detect_links for the urls found in the text: the loop over the cleaned urls
\* that were not seen before, then sorted(links). (The list of links is bound
\* as the element of a one-element set, so that it is computed once.)
DetectLinks(urls) ==
  CHOOSE sorted \in
    {Sorted(links) :
       links \in {[i \in 1..Len(unique) |-> DetectedLinkFor[unique[i]]] :
                    unique \in {Unique([i \in 1..Len(urls) |-> CleanedUrl[urls[i]]],
                                       SeenAtStart)}}} : TRUE

\* get_all_deck_links
GetAllDeckLinks(list) == SelectSeq(list, LAMBDA l : l.is_deck)

\* get_best_deck_link returns None.
NoLink == [url |-> <<>>]

\* get_best_deck_link
GetBestDeckLink(list) ==
  LET deck_links == GetAllDeckLinks(list)
  IN  IF deck_links # <<>> THEN deck_links[1] ELSE NoLink

\* has_multiple_decks
HasMultipleDecks(list) == Len(GetAllDeckLinks(list)) > 1

\* LinkDetector instances: the bot's extractor holds one, a caller may make
\* another.
Detectors == {1, 2}

\* detect_links of detector d on a text with these urls, from start to return.
DetectLinksOn(d, urls) ==
  \E links \in {DetectLinks(urls)} :
    /\ found_urls' = urls
    /\ links_out' = [returned |-> TRUE, links |-> links]
    /\ seen_urls' = SeenAtStart \cup {CleanedUrl[urls[i]] : i \in 1..Len(urls)}
    /\ history' = Append(history, [detector |-> d, urls |-> urls, links |-> links])
    /\ UNCHANGED <<grouper_vars, rate_vars, extract_vars, fetch_vars, path_vars>>

\* One call of detect_links.
DetectLinksCall ==
  /\ links_out = NoLinks
  /\ DetectLinksOn(1, found_urls)

\* Any text with up to MaxUrls urls.
InitDetect ==
  /\ InitGrouperIdle
  /\ tick = 10
  /\ InitRateIdle
  /\ InitExtractIdle
  /\ InitFetchIdle
  /\ InitPathIdle
  /\ found_urls \in UNION {[1..n -> UrlPool] : n \in 0..MaxUrls}
  /\ links_out = NoLinks
  /\ seen_urls = {}
  /\ history = <<>>

NextDetect == DetectLinksCall

DetectSpec == InitDetect /\ [][NextDetect]_vars

\* The texts of the repeated calls, as the urls they hold.
Texts ==
  {<<>>,
   <<Url.DocsendAbc, Url.DocsendDef>>,
   <<Url.LoomShare, Url.CalPitch, Url.DocsendAbc>>,
   <<Url.ClickDocsend, Url.DocsendAbc, Url.SitePdf>>,
   <<Url.SiteDeckComma, Url.BadHostDeck, Url.DocsendAbc>>,
   <<Url.DocsendAbc, Url.DocsendAbc, Url.DriveFileDeck>>}

\* One more call of detect_links, on any detector and any of the texts.
DetectLinksAgain ==
  /\ Len(history) < MaxDetectCalls
  /\ \E d \in Detectors, urls \in Texts : DetectLinksOn(d, urls)

\* No call made yet.
InitRepeat ==
  /\ InitGrouperIdle
  /\ tick = 10
  /\ InitRateIdle
  /\ InitExtractIdle
  /\ InitFetchIdle
  /\ InitPathIdle
  /\ InitDetectIdle

NextRepeat == DetectLinksAgain

RepeatSpec == InitRepeat /\ [][NextRepeat]_vars

----------------------------------------------------------------------------
(* Properties *)

HandedIndex == 1..Len(handed)

\* Message m is in a group that has been handed to on_group_ready.
InHanded(m) == \E i \in HandedIndex : m \in GetAllMessageIds(handed[i])

NoRepeat(seq) == \A i, j \in 1..Len(seq) : i # j => seq[i] # seq[j]

\* C1: under every interleaving of add_message calls, timer expiries, flush_all
\* and stop, no group is handed to on_group_ready twice and no message is in
\* two handed-off groups (nor twice in one): the handed-off groups are
\* pairwise disjoint.
C1_HandedOffOnce ==
  /\ \A i, j \in HandedIndex :
       i # j => GetAllMessageIds(handed[i]) \cap GetAllMessageIds(handed[j]) = {}
  /\ \A i \in HandedIndex : NoRepeat(handed[i].messages)

\* A conversation whose groups were finalized by two different paths: one by
\* its timer and another by an add_message that started a new group.
C1_Witness ==
  \E i, j \in HandedIndex :
    /\ i # j
    /\ handed[i].by.kind = "timer"
    /\ handed[j].by.kind = "add"
    /\ Pool[handed[i].messages[1]].chat_id = Pool[handed[j].messages[1]].chat_id

\* C2: for max_group_size >= 1 no handed-off group holds more than
\* max_group_size messages and every open group holds fewer: the add_message
\* step that appends the max_group_size-th message finalizes the group.
C2_GroupSizeBounded ==
  max_group_size >= 1 =>
    /\ \A i \in HandedIndex : Len(handed[i].messages) <= max_group_size
    /\ \A c \in Chats : pending_groups[c].present =>
         Len(pending_groups[c].messages) < max_group_size

\* A group of three messages was finalized by the add_message that filled it.
C2_Witness ==
  \E i \in HandedIndex :
    /\ max_group_size = 3
    /\ Len(handed[i].messages) = max_group_size
    /\ handed[i].by.kind = "add"
    /\ handed[i].by.id = handed[i].messages[max_group_size]

\* C3: whenever the lock is free every group in the table has at least one
\* message, and no empty group is ever handed to on_group_ready.
C3_NoEmptyGroup ==
  /\ ~locked => \A c \in Chats :
       pending_groups[c].present => pending_groups[c].messages # <<>>
  /\ \A i \in HandedIndex : handed[i].messages # <<>>

\* flush_all has finalized one conversation's group while the other
\* conversation had none, a timer has finalized another group, and a group is
\* open with the lock free.
C3_Witness ==
  /\ ~locked
  /\ \E i, j \in HandedIndex : handed[i].by.kind = "flush" /\ handed[j].by.kind = "timer"
  /\ \E c \in Chats : pending_groups[c].present

Last(seq) == seq[Len(seq)]

\* The message lists of all groups, open or handed off.
AllGroups ==
  {handed[i].messages : i \in HandedIndex}
    \cup {pending_groups[c].messages : c \in {x \in Chats : pending_groups[x].present}}

Members(seq) == {seq[i] : i \in 1..Len(seq)}

\* m1 and m2 are in one group.
Together(m1, m2) == \E g \in AllGroups : {m1, m2} \subseteq Members(g)

\* m is the first message of its group.
OpensGroup(m) == \E g \in AllGroups : g # <<>> /\ g[1] = m

\* add_message for m has taken the lock and made its decisions.
Admitted(m) == m \in Members(admitted)

\* The open group of conversation c is guarded: its registered timer is alive
\* and not cancelled, or the add_message that appended last is about to arm it.
Guarded(c) ==
  \/ /\ timers[c] # NoTimer
     /\ tasks[timers[c]].state \in {"sleep", "lock"}
     /\ ~tasks[timers[c]].cancel
  \/ \E m \in MsgIds : adds[m].pc = "await" /\ Pool[m].chat_id = c

\* C4: while stop() is never called and tasks and time are scheduled fairly,
\* every open group is guarded by an armed debounce timer and every admitted
\* message is eventually in a group handed to on_group_ready.
C4_EventuallyHandedOff ==
  /\ [](\A c \in Chats : pending_groups[c].present => Guarded(c))
  /\ \A m \in MsgIds : Admitted(m) ~> InHanded(m)

\* A timer that expired while its group was open has finalized it.
C4_Witness ==
  /\ ~stopped
  /\ \E i \in HandedIndex :
       /\ handed[i].by.kind = "timer"
       /\ Len(handed[i].messages) = 2
       /\ tasks[handed[i].by.id].state = "done"

\* The latest two add_message calls were for m1 and then, 5 seconds later,
\* for m2: same conversation, same sender, no attachment, m2 a reply to m1.
C5_Scenario(m1, m2) ==
  /\ Len(arrived) >= 2
  /\ arrived[Len(arrived) - 1] = m1
  /\ Last(arrived) = m2
  /\ last_delay = 5
  /\ Pool[m1].chat_id = Pool[m2].chat_id
  /\ Pool[m1].sender_name = Pool[m2].sender_name
  /\ ~Pool[m1].has_document
  /\ ~Pool[m2].has_document
  /\ Pool[m2].reply_to_message_id = m1

\* C5 as claimed: with the bot's configuration two such messages, once both
\* are handed off, are in one handed-off group of two messages.
C5_HandedOffTogether ==
  \A m1, m2 \in MsgIds :
    (C5_Scenario(m1, m2) /\ InHanded(m1) /\ InHanded(m2)) =>
      \E i \in HandedIndex : handed[i].messages = <<m1, m2>>

\* C5 (amended): with the bot's configuration, when the first of two such
\* messages opened a new group, its 3-second timer has handed that group off
\* alone before the second message is admitted 5 seconds later, and the two
\* messages are never in one group.
C5_HandedOffSeparately ==
  \A m1, m2 \in MsgIds :
    (C5_Scenario(m1, m2) /\ OpensGroup(m1) /\ Admitted(m2)) =>
      /\ \E i \in HandedIndex :
           /\ handed[i].messages = <<m1>>
           /\ handed[i].by = [kind |-> "timer", id |-> m1]
      /\ ~Together(m1, m2)

\* Both messages of the scenario have been handed off, each alone.
C5_Witness ==
  /\ C5_Scenario(1, 2)
  /\ \E i, j \in HandedIndex :
       handed[i].messages = <<1>> /\ handed[j].messages = <<2>>

\* add_message for m takes the lock in this step.
Admits(m) == admitted' = Append(admitted, m)

\* C6: a message admitted more than 120 seconds after the last accepted
\* message of its conversation never shares a group with it: the earlier
\* message's group is handed off without the new message, whatever the
\* configured timeouts.
C6_GapSeparates ==
  [][\A m \in MsgIds :
       LET c == Pool[m].chat_id
           old == pending_groups[c]
       IN  (/\ Admits(m)
            /\ old.present
            /\ old.messages # <<>>
            /\ last_message_time[c] > GapSeconds)
           => /\ \E i \in 1..Len(handed') :
                   /\ handed'[i].messages = old.messages
                   /\ m \notin Members(handed'[i].messages)
              /\ \A g \in AllGroups' :
                   ~({Last(old.messages), m} \subseteq Members(g))]_vars

\* A group was handed off by the add_message of a later message of its own
\* primary sender while it had room: only the gap rule starts a new group then.
C6_Witness ==
  \E i \in HandedIndex :
    /\ handed[i].by.kind = "add"
    /\ handed[i].by.id \notin Members(handed[i].messages)
    /\ Pool[handed[i].by.id].sender_name = handed[i].primary_sender
    /\ Len(handed[i].messages) < max_group_size

\* The Pool's attachment names that end in ".pdf" when case is ignored.
PdfNames == {PitchPDF}

\* C7: a message with a PDF attachment that becomes the first message of a
\* group is handed off alone by its own add_message call, which arms no timer;
\* a PDF message appended to a group that stays below max_group_size leaves
\* the group open under a debounce timer.
C7_PdfAlone ==
  [][\A m \in MsgIds :
       LET c == Pool[m].chat_id
       IN  (Admits(m) /\ Pool[m].document_name \in PdfNames)
           => IF OpensGroup(m)'
              THEN /\ Len(handed') > Len(handed)
                   /\ Last(handed').messages = <<m>>
                   /\ Last(handed').by = [kind |-> "add", id |-> m]
                   /\ ~pending_groups'[c].present
                   /\ timers'[c] = NoTimer
                   /\ adds'[m].pc = "done"
              ELSE Len(pending_groups[c].messages) + 1 < max_group_size
                   => /\ pending_groups'[c].present
                      /\ pending_groups'[c].messages = Append(pending_groups[c].messages, m)
                      /\ ~InHanded(m)'
                      /\ (adds'[m].pc = "await" \/ timers'[c] = m)]_vars

\* The PDF message was handed off alone by its add_message, not for its size.
C7_Witness ==
  /\ max_group_size > 1
  /\ timers[1] = NoTimer
  /\ \E i \in HandedIndex :
       handed[i].messages = <<3>> /\ handed[i].by = [kind |-> "add", id |-> 3]

\* The step admits m while a non-empty group is open for its conversation.
AdmitsIntoOpen(m) ==
  /\ Admits(m)
  /\ pending_groups[Pool[m].chat_id].present
  /\ pending_groups[Pool[m].chat_id].messages # <<>>

\* m joins the group that was open before the step.
Joins(m) ==
  \E g \in AllGroups' :
    Members(pending_groups[Pool[m].chat_id].messages) \cup {m} \subseteq Members(g)

\* m starts a new group: the old group is the next one handed off, unchanged,
\* by m's add_message, and m is the first message of its own group.
StartsNew(m) ==
  /\ Len(handed') > Len(handed)
  /\ handed'[Len(handed) + 1].messages = pending_groups[Pool[m].chat_id].messages
  /\ handed'[Len(handed) + 1].by = [kind |-> "add", id |-> m]
  /\ m \notin Members(handed'[Len(handed) + 1].messages)
  /\ OpensGroup(m)'

OtherSender(m) ==
  Pool[m].sender_name # pending_groups[Pool[m].chat_id].primary_sender

RepliesIntoGroup(m) ==
  Pool[m].reply_to_message_id \in Members(pending_groups[Pool[m].chat_id].messages)

\* C8 as claimed: a message from another sender joins the open group when it
\* replies to one of its messages and starts a new group otherwise.
C8_ReplyAlwaysJoins ==
  [][\A m \in MsgIds :
       (AdmitsIntoOpen(m) /\ OtherSender(m))
       => IF RepliesIntoGroup(m) THEN Joins(m) ELSE StartsNew(m)]_vars

\* C8 (amended): a message from another sender starts a new group unless it
\* replies to a message of the open group; such a reply joins the group when
\* it is admitted within 120 seconds of the last accepted message and starts a
\* new group after a longer gap.  Whenever a message does not join, the old
\* group is handed off unchanged before the new group is created.
C8_SenderRule ==
  [][\A m \in MsgIds :
       AdmitsIntoOpen(m)
       => /\ OtherSender(m) =>
               IF RepliesIntoGroup(m)
                  /\ last_message_time[Pool[m].chat_id] <= GapSeconds
               THEN Joins(m)
               ELSE StartsNew(m)
          /\ Joins(m) \/ StartsNew(m)]_vars

\* A group holds a message of a sender other than the sender of its first.
C8_Witness ==
  \E g \in AllGroups : \E i \in 1..Len(g) :
    Pool[g[i]].sender_name # Pool[g[1]].sender_name

\* The timer tasks of conversation c that have not ended.
LiveTimers(c) ==
  {t \in MsgIds : tasks[t].chat = c /\ tasks[t].state \in {"sleep", "lock"}}

ChatAdmitted(c) == SelectSeq(admitted, LAMBDA m : Pool[m].chat_id = c)

IsSegment(g, seq) ==
  \E k \in 0..(Len(seq) - Len(g)) : \A i \in 1..Len(g) : g[i] = seq[k + i]

\* C10: add_message calls are serialized by the lock.  While one call is
\* suspended between its append and the arming of its timer it holds the lock,
\* no other call has taken the lock since and its message is still the last of
\* the open group; and every group holds consecutive messages of its
\* conversation in the order their calls took the lock.
C10_Serialized ==
  /\ \A m \in MsgIds : adds[m].pc = "await" =>
       /\ locked
       /\ Last(admitted) = m
       /\ pending_groups[Pool[m].chat_id].present
       /\ Last(pending_groups[Pool[m].chat_id].messages) = m
  /\ Cardinality({m \in MsgIds : adds[m].pc = "await"}) <= 1
  /\ \A g \in AllGroups : g # <<>> => IsSegment(g, ChatAdmitted(Pool[g[1]].chat_id))

\* Two add_message calls for one conversation overlap: one is suspended
\* holding the lock while the other waits for it.
C10_Witness ==
  \E m1, m2 \in MsgIds :
    /\ m1 # m2
    /\ Pool[m1].chat_id = Pool[m2].chat_id
    /\ adds[m1].pc = "await"
    /\ adds[m2].pc = "lock"

\* The add_message call that holds the lock across a suspension waits for a
\* timer task on which cancel() has been called (or that has ended): no sleep
\* stands between it and the release.
HolderAwaitsCancelled(m) ==
  /\ adds[m].pc = "await"
  /\ \/ tasks[adds[m].await_t].state = "done"
     \/ tasks[adds[m].await_t].cancel

Arrived(m) == m \in Members(arrived)

\* C11: whenever the lock is held at a suspension point its holder is an
\* add_message awaiting the end of the superseded timer it has just cancelled:
\* never a sleeping timer task and never a processing task running
\* on_group_ready.  So, with callbacks that never return among the handed-off
\* groups, every add_message call is eventually admitted.
C11_LockOnlyForDecisions ==
  /\ [](locked => \E m \in MsgIds : HolderAwaitsCancelled(m))
  /\ []<>(\A m \in MsgIds : Arrived(m) => Admitted(m))

\* The callback of the group of message 3 never returns, and two later
\* messages, one of each conversation, have been admitted since.
C11_Witness ==
  /\ Len(admitted) = 3
  /\ admitted[1] = 3
  /\ \E i \in HandedIndex :
       /\ handed[i].messages = <<3>>
       /\ workers[i].state = "running"
       /\ workers[i].callback = "hangs"

\* The step in which processing task i runs a callback that raises.
RaisesIn(i) ==
  /\ i \in 1..Len(workers)
  /\ workers[i].state = "ready"
  /\ workers[i].callback = "raises"
  /\ workers'[i].state \notin {"ready", "cancelled"}

\* C12: a step in which on_group_ready raises changes no open group, no
\* timer, no last-activity time and nothing of the lock, and ends the task
\* with the exception logged ("failed") and the task out of _active_tasks;
\* and unless stop() is called every admitted message is still eventually
\* handed off, whichever callbacks have raised.
C12_CallbackFailureContained ==
  /\ [][\A i \in 1..MaxMsgs : RaisesIn(i) =>
         /\ UNCHANGED <<pending_groups, last_message_time, timers, tasks, locked,
                        waiters, handed>>
         /\ workers'[i].state = "failed"
         /\ i \notin active_tasks']_vars
  /\ []<>(stopped \/ \A m \in MsgIds : Admitted(m) => InHanded(m))

\* The callback of one group has raised and a group finalized later has been
\* dispatched and processed.
C12_Witness ==
  \E i, j \in HandedIndex :
    /\ i < j
    /\ workers[i].state = "failed"
    /\ workers[j].state \in {"done", "running"}
    /\ handed[j].by.kind = "timer"
    /\ ~stopped

\* The step in which stop() returns: at once, or after its gather.
StopReturns == StopReturn \/ (Stop /\ stopping'.pc = "idle")

AliveTimers == {t \in MsgIds : tasks[t].state \in {"sleep", "lock"}}

\* The step hands a group off from timer task t.
TimerFinalizes(t) ==
  /\ Len(handed') = Len(handed) + 1
  /\ Last(handed').by = [kind |-> "timer", id |-> t]

\* C13 as claimed: when stop() returns no timer is registered, every timer
\* task still alive is cancelled and no processing task is in flight.
C13_NothingLeftAfterStop ==
  [][StopReturns =>
       /\ \A c \in Chats : timers'[c] = NoTimer
       /\ \A t \in AliveTimers' : tasks'[t].cancel
       /\ \A i \in 1..Len(workers') : Ended(workers'[i])]_vars

\* What stop() does guarantee: it cancels every timer task alive and every processing
\* task in flight when it is called and empties _timers; when it returns the
\* processing tasks it found have ended, cancelled, and _active_tasks is
\* empty; and a timer task on which cancel() was called never finalizes.
C13_StopCancelsWhatItFound ==
  /\ [][Stop =>
         /\ \A c \in Chats : timers'[c] = NoTimer
         /\ \A t \in AliveTimers : tasks'[t].cancel
         /\ \A i \in active_tasks : workers'[i].cancel
         /\ stopping'.set = active_tasks]_vars
  /\ [][StopReturns =>
         /\ \A i \in stopping.set \cup stopping'.set :
              workers'[i].state = "cancelled"
         /\ active_tasks' = {}]_vars
  /\ [][\A t \in MsgIds : TimerFinalizes(t) => ~tasks[t].cancel]_vars

\* stop() has returned after cancelling and awaiting a processing task, and
\* has left a group open with no timer.
C13_Witness ==
  /\ stopped
  /\ stopping = Idle
  /\ \E i \in 1..Len(workers) : workers[i].state = "cancelled"
  /\ \E c \in Chats : pending_groups[c].present /\ timers[c] = NoTimer
  /\ AliveTimers = {}
  /\ \A m \in MsgIds : adds[m].pc \in {"idle", "done"}

\* The processing task of the group of message m has ended with its callback
\* run to the end (returned, or raised and logged).
Processed(m) ==
  \E i \in HandedIndex :
    /\ m \in GetAllMessageIds(handed[i])
    /\ workers[i].state \in {"done", "failed"}

\* The graceful drain: once flush_all and then wait_for_completion have
\* returned, with no add_message call since flush_all was called and stop()
\* never called, every add_message call has been admitted and its message
\* handed off and processed, no group is open, no timer is registered and
\* every timer task still alive is cancelled.
DrainCompletes ==
  (drain = "drained" /\ ~stopped) =>
    /\ \A m \in MsgIds : Arrived(m) => Admitted(m) /\ Processed(m)
    /\ \A c \in Chats : ~pending_groups[c].present /\ timers[c] = NoTimer
    /\ \A t \in AliveTimers : tasks[t].cancel
    /\ active_tasks = {}

\* C14: the graceful drain completes; and after stop(), with no add_message
\* or flush_all called since, no group is handed off any more.
C14_DrainOrAbandon ==
  /\ []DrainCompletes
  /\ [][drain = "abandoned" /\ drain' = "abandoned" => handed' = handed]_vars

\* The requests posted in the 30 minutes that start at minute t.
PostedFrom(t) ==
  {i \in 1..Len(requests) : requests[i].at >= t /\ requests[i].at < t + RateWindow}

\* C15: whichever calls overlap, no 30-minute window holds more than 5 of the
\* requests that _enforce_rate_limit has admitted.
C15_AtMostFivePerWindow ==
  \A i \in 1..Len(requests) : Cardinality(PostedFrom(requests[i].at)) <= RateLimit

\* The call admitted in this step, if any.
AdmittedNow(k) == calls[k].pc # "posted" /\ calls'[k].pc = "posted"

\* C16: a call that finds 5 timestamps in the window is not admitted then and
\* not rejected: it sleeps, and is admitted no earlier than 30 minutes after
\* the oldest of them; every call ends with its request posted, and every
\* sleeping call eventually does.
C16_BlocksNeverDrops ==
  /\ [][\A k \in 1..MaxCalls :
          /\ (AdmittedNow(k) /\ calls[k].pc = "idle") =>
                Len(Cleanup(request_timestamps, rate_now)) < RateLimit
          /\ (calls[k].pc = "idle" /\ calls'[k].pc = "sleep") =>
                calls'[k].wake = Cleanup(request_timestamps, rate_now)[1] + RateWindow
          /\ (AdmittedNow(k) /\ calls[k].pc = "sleep") => rate_now >= calls[k].wake
          /\ AdmittedNow(k) => Last(requests') = [at |-> rate_now, by |-> k]]_vars
  /\ []<>(Sleeping = {})

\* A call found the window full, slept and has posted its request.
C16_Witness ==
  \E k \in 1..MaxCalls :
    /\ calls[k].pc = "posted"
    /\ calls[k].wake > 0
    /\ \E i \in 1..Len(requests) : requests[i].by = k /\ requests[i].at >= calls[k].wake

\* extract has returned for the links it detected.
Returned == result # NoResult

\* C17: whatever the links' fetch outcomes and the attachment, the returned
\* result has decks_fetched <= decks_detected.
C17_FetchedAtMostDetected ==
  Returned => result.decks_fetched <= result.decks_detected

\* Every link was fetched successfully and the attachment was appended to the
\* list of fetched decks, which then holds more successes than links.
C17_Witness ==
  /\ Returned
  /\ result.decks_detected > 0
  /\ result.decks_fetched = result.decks_detected
  /\ Len(result.fetched_decks) > result.decks_detected
  /\ \A i \in 1..Len(result.fetched_decks) : result.fetched_decks[i].success

\* The review reasons name this url with this kind of remark.
Mentions(url, says) ==
  \E i \in 1..Len(result.review_reasons) :
    result.review_reasons[i].url = url /\ result.review_reasons[i].says = says

\* Link A's fetch failed and link B's succeeded with 10 characters.
ScenarioAB ==
  /\ Returned
  /\ pdf_content = NoContent
  /\ Len(detected_links) = 2
  /\ ~fetched_decks[1].success
  /\ fetched_decks[2].success /\ fetched_decks[2].content = 10

\* C18: with link A failed and link B fetched with 10 characters, the result
\* has decks_detected = 2, decks_fetched = 1, the review flag, and reasons
\* that mention A's error and B's thin content.
C18_MixedOutcome ==
  ScenarioAB =>
    /\ result.decks_detected = 2
    /\ result.decks_fetched = 1
    /\ result.needs_review
    /\ Mentions("A", "error")
    /\ Mentions("B", "thin content")

\* The link fetches, without the attachment.
LinkDecks == SubSeq(fetched_decks, 1, Len(detected_links))

\* C19: the review flag is set when links were detected and none fetched, and
\* when any fetch succeeded with a text shorter than 500 characters, empty
\* or absent text included; when every link failed, the reasons hold each
\* failed link's error string.
C19_ReviewFlag ==
  Returned =>
    /\ (result.decks_detected > 0 /\ result.decks_fetched = 0) => result.needs_review
    /\ (\E i \in 1..Len(LinkDecks) :
          LinkDecks[i].success /\ LinkDecks[i].content < ThinThreshold)
         => result.needs_review
    /\ (Len(LinkDecks) > 0 /\ \A i \in 1..Len(LinkDecks) : ~LinkDecks[i].success)
         => \A i \in 1..Len(LinkDecks) :
              \E j \in 1..Len(result.review_reasons) :
                result.review_reasons[j] =
                  [url |-> LinkDecks[i].url, says |-> "error",
                   detail |-> LinkDecks[i].error]

\* C20 as claimed: decks_detected is the number of links and decks_fetched
\* the number of successes that are not thin.
C20_HardSuccessesCounted ==
  Returned =>
    /\ result.decks_detected = Len(detected_links)
    /\ result.decks_fetched =
         Cardinality({i \in 1..Len(LinkDecks) :
           LinkDecks[i].success /\ ~(LinkDecks[i].content < ThinThreshold)})

\* C20: decks_detected is the number of links and decks_fetched the number of
\* link fetches that reported success, thin ones included; the attachment is
\* in neither.
C20_ReportedSuccessesCounted ==
  Returned =>
    /\ result.decks_detected = Len(detected_links)
    /\ result.decks_fetched =
         Cardinality({i \in 1..Len(LinkDecks) : LinkDecks[i].success})

\* A thin success and an attachment: the thin success is counted, the
\* attachment is not.
C20_Witness ==
  /\ Returned
  /\ Truthy(pdf_content)
  /\ result.decks_fetched = 1
  /\ Len(result.fetched_decks) = 3
  /\ \E i \in 1..Len(LinkDecks) : IsThin(LinkDecks[i])

\* _fetch_deck called this extractor.
Tried(by) == \E i \in 1..Len(attempts) : attempts[i].by = by

\* C21: whatever the link's type, with the browser agent configured a link
\* whose extractor reported failure is recorded as failed only after the
\* browser agent has been tried on it.
C21_FallbackBeforeFailure ==
  (fetched_deck # NoDeck /\ attempts # <<>> /\ agent_enabled /\ ~fetched_deck.success)
    => Tried("browser_agent")

\* The docsend2pdf API asked for a passcode and none was available.
PasswordNeeded ==
  /\ fetched_deck # NoDeck
  /\ ~has_password
  /\ \E i \in 1..Len(attempts) : attempts[i] = Call("docsend_api", "passcode")

\* C22: a link reported as password-protected with no password available is
\* recorded as a failure with the reason "Document requires password" and no
\* other extractor is tried on it, neither Playwright nor the browser agent.
C22_PasswordFailureNotRetried ==
  PasswordNeeded =>
    /\ ~fetched_deck.success
    /\ fetched_deck.error = "Document requires password"
    /\ ~Tried("docsend_browser")
    /\ ~Tried("browser_agent")

\* C23: a fetched_deck returned with success carries non-empty content or the path
\* of a downloaded document.
C23_SuccessCarriesContent ==
  (fetched_deck # NoDeck /\ fetched_deck.success) => (Truthy(fetched_deck.content) \/ fetched_deck.pdf_path)

\* C24: the list of fetched decks in the result has one entry per detected
\* link, in the links' order, whatever the fetches gave.
C24_OneDeckPerLink ==
  Returned =>
    /\ Len(result.fetched_decks) = Len(detected_links)
    /\ \A i \in 1..Len(detected_links) : result.fetched_decks[i].url = detected_links[i]

\* C25: two groups in processing never use the same file path, and no
\* group finds the file it saved removed by another group's cleanup.
C25_PathsUniquePerGroup ==
  /\ \A g, h \in Groups :
       (g # h /\ InFlight(g) /\ InFlight(h)) => PdfPath(group_url[g]) # PdfPath(group_url[h])
  /\ unreadable = {}

\* detect_links has returned.
Detected == links_out # NoLinks

\* The links it returned.
Links == links_out.links

\* The text held this url.
Found(url) == \E k \in 1..Len(found_urls) : found_urls[k] = url

\* C26: detect_links returns one DetectedLink per url, where urls that differ
\* only in trailing slash, query string or fragment, or that are reached
\* through a redirector, count as the same url.
C26_OnePerNormalizedUrl ==
  Detected =>
    \A i, j \in 1..Len(Links) :
      i # j => NormalizeUrl(Links[i].url) # NormalizeUrl(Links[j].url)

\* Where the url of a returned link first appears in the text, after cleaning.
FirstSeen(url) ==
  CHOOSE k \in 1..Len(found_urls) :
    /\ CleanedUrl[found_urls[k]] = url
    /\ \A j \in 1..(k - 1) : CleanedUrl[found_urls[j]] # url

\* The fixed base score of each type.
BaseScore(type) ==
  CASE type = "docsend" -> 100 [] type = "papermark" -> 90 [] type = "pitch_com" -> 88
    [] type = "pdf_direct" -> 85 [] type = "google_drive" -> 70 [] type = "loom" -> 40
    [] type = "website" -> 10 [] type = "calendar" -> 3 [] type = "unknown" -> 1

\* C27: the links come in non-increasing priority, the priority is the type's
\* base score plus 50 for a deck link, and links of equal priority are in the
\* order in which they first appear in the text.
C27_SortedStable ==
  Detected =>
    /\ \A i \in 1..Len(Links) :
         Links[i].priority =
           BaseScore(Links[i].link_type) + (IF Links[i].is_deck THEN 50 ELSE 0)
    /\ \A i, j \in 1..Len(Links) :
         i < j =>
           /\ Links[i].priority >= Links[j].priority
           /\ Links[i].priority = Links[j].priority
                => FirstSeen(Links[i].url) < FirstSeen(Links[j].url)

\* Two DocSend links behind a Loom link: both deck links, ahead of the Loom
\* link and in the order of the text.
C27_Witness ==
  /\ Detected
  /\ found_urls = <<Url.LoomShare, Url.DocsendAbc, Url.DocsendDef>>
  /\ Len(Links) = 3
  /\ Links[1].url = Url.DocsendAbc /\ Links[1].is_deck
  /\ Links[2].url = Url.DocsendDef /\ Links[2].is_deck

\* The path of the url, in lower case, holds one of the deck keywords.
HasDeckKeyword(url) ==
  \E word \in {<<"/", "d", "e", "c", "k">>, <<"/", "p", "i", "t", "c", "h">>,
               <<"/", "p", "r", "e", "s", "e", "n", "t", "a", "t", "i", "o", "n">>,
               <<"/", "i", "n", "v", "e", "s", "t", "o", "r">>, <<"/", "f", "u", "n", "d", "r", "a", "i", "s">>} :
    Contains(Lower(UrlParse(url).path), word)

Classified(url, type) ==
  \E i \in 1..Len(Links) : Links[i].url = url /\ Links[i].link_type = type

\* The returned links hold this url.
Returns(url) == \E i \in 1..Len(Links) : Links[i].url = url

\* C29: the redirector url whose url parameter holds the encoded DocSend url
\* is replaced by that url and classified as DocSend, once even if the DocSend
\* url is in the text as well; a redirector url with no such parameter, or
\* with a value that does not start with "http", is classified as itself.
C29_RedirectUnwrapped ==
  Detected =>
    /\ Found(Url.ClickDocsend) =>
         /\ Classified(Url.DocsendAbc, "docsend")
         /\ ~Returns(Url.ClickDocsend)
         /\ Cardinality({i \in 1..Len(Links) : Links[i].url = Url.DocsendAbc}) = 1
    /\ Found(Url.ClickPlain) => Classified(Url.ClickPlain, "website")
    /\ Found(Url.ClickNoHttp) => Classified(Url.ClickNoHttp, "website")

\* The redirector url and the url it leads to are both in the text.
C29_Witness ==
  /\ Detected
  /\ Found(Url.ClickDocsend) /\ Found(Url.DocsendAbc) /\ Found(Url.ClickNoHttp)
  /\ Len(Links) = 2
  /\ Classified(Url.DocsendAbc, "docsend")

\* The positions of the deck links among the returned links.
DeckPositions == {i \in 1..Len(Links) : Links[i].is_deck}

\* C30: get_all_deck_links gives the deck links of detect_links in their
\* order, get_best_deck_link the first of them or None, has_multiple_decks
\* whether there are two or more; a calendar link is never among them and a
\* DocSend link comes before every Loom link.
C30_DeckLinks ==
  Detected =>
    LET all == GetAllDeckLinks(Links)
    IN  /\ Len(all) = Cardinality(DeckPositions)
        /\ \A n \in 1..Len(all) :
             \E i \in DeckPositions :
               /\ all[n] = Links[i]
               /\ Cardinality({j \in DeckPositions : j < i}) = n - 1
        /\ GetBestDeckLink(Links) = (IF DeckPositions = {} THEN NoLink ELSE all[1])
        /\ HasMultipleDecks(Links) <=> Cardinality(DeckPositions) >= 2
        /\ \A n \in 1..Len(all) : all[n].link_type # "calendar"
        /\ \A n, m \in 1..Len(all) :
             (all[n].link_type = "docsend" /\ all[m].link_type = "loom") => n < m

\* A Loom link, a calendar link with "pitch" in its path and a DocSend link:
\* two deck links, the DocSend link first.
C30_Witness ==
  /\ Detected
  /\ found_urls = <<Url.LoomShare, Url.CalPitch, Url.DocsendAbc>>
  /\ HasMultipleDecks(Links)
  /\ Len(GetAllDeckLinks(Links)) = 2
  /\ GetBestDeckLink(Links).url = Url.DocsendAbc

\* The urls of the text that urlparse cannot parse, as detect_links goes on
\* with them.
Unparsable ==
  {CleanedUrl[found_urls[k]] : k \in {n \in 1..Len(found_urls) : UrlParseRaises(CleanedUrl[found_urls[n]])}}

\* C31: detect_links returns for every text: a url that cannot be parsed is
\* returned with type unknown, not a deck link and with the least priority of
\* all, and every other url of the text is returned as well.
C31_MalformedIsUnknown ==
  Detected =>
    /\ \A url \in Unparsable :
         \E i \in 1..Len(Links) :
           /\ Links[i].url = url
           /\ Links[i].link_type = "unknown"
           /\ ~Links[i].is_deck
           /\ Links[i].priority = 1
           /\ \A j \in 1..Len(Links) : Links[j].priority >= Links[i].priority
    /\ \A k \in 1..Len(found_urls) : Returns(CleanedUrl[found_urls[k]])

\* A url that cannot be parsed between two that can: it comes last, the
\* other two are classified.
C31_Witness ==
  /\ Detected
  /\ found_urls = <<Url.SiteDeckComma, Url.BadHostDeck, Url.DocsendAbc>>
  /\ Len(Links) = 3
  /\ Links[1].link_type = "docsend"
  /\ Links[2].link_type = "website" /\ Links[2].is_deck
  /\ Links[3].url = Url.BadHostDeck

GroupsWithMessages ==
  {pending_groups[c] : c \in {k \in Chats : pending_groups[k].present
                                              /\ pending_groups[k].messages # <<>>}}
    \cup {[present |-> TRUE, messages |-> handed[i].messages,
            primary_sender |-> handed[i].primary_sender] : i \in HandedIndex}

\* C33: the primary sender of every group, open or handed off, is the sender
\* of the group's first message, also when that sender's name is empty.
C33_PrimarySenderIsFirst ==
  \A group \in GroupsWithMessages :
    group.primary_sender = Pool[group.messages[1]].sender_name

\* C33 for the groups whose first message has a sender name.
C33_NamedFirstSenderKept ==
  \A group \in GroupsWithMessages :
    Pool[group.messages[1]].sender_name # ""
      => group.primary_sender = Pool[group.messages[1]].sender_name

\* The debounce duration of a group: the quick timeout for a group with an
\* attachment or with one message, else twice the quick timeout, at most the
\* base timeout.
DebounceFor(messages) ==
  IF \/ \E i \in 1..Len(messages) : Pool[messages[i]].has_document
     \/ Len(messages) = 1
  THEN quick_timeout
  ELSE IF 2 * quick_timeout <= timeout_seconds THEN 2 * quick_timeout
       ELSE timeout_seconds

\* The groups handed off in this step.
NewlyHanded == {i \in 1..Len(handed') : i > Len(handed)}

\* C34: an add_message call that ends has finalized its message's group or
\* armed the conversation's timer; a timer that is armed sleeps for the
\* debounce duration of the open group; and a timer finalizes a group when
\* exactly that duration has passed since the group's last message was
\* accepted.
C34_DebounceFromLastMessage ==
  [][ /\ \A m \in MsgIds :
           (adds[m].pc # "done" /\ adds'[m].pc = "done") =>
             \/ \E i \in NewlyHanded :
                   handed'[i].messages[Len(handed'[i].messages)] = m
             \/ /\ tasks'[m].state = "sleep"
                /\ timers'[Pool[m].chat_id] = m
      /\ \A m \in MsgIds :
           (tasks[m].state = "none" /\ tasks'[m].state = "sleep") =>
             /\ pending_groups'[Pool[m].chat_id].present
             /\ tasks'[m].remaining =
                  DebounceFor(pending_groups'[Pool[m].chat_id].messages)
      /\ \A i \in NewlyHanded :
           handed'[i].by.kind = "timer" =>
             last_message_time[Pool[handed'[i].messages[1]].chat_id]
               = DebounceFor(handed'[i].messages) ]_vars

\* Message 2 joined message 1's group two seconds after it, and the timer
\* has finalized the group six seconds after message 2; a group with an
\* attachment was open for two messages.
C34_Witness ==
  /\ arrived = <<1, 2>>
  /\ last_delay = 2
  /\ since = 2 * quick_timeout
  /\ Len(handed) = 1
  /\ handed[1].messages = <<1, 2>>
  /\ handed[1].by = [kind |-> "timer", id |-> 2]

\* C35: a group that has been handed off keeps the messages it was handed
\* off with, and no group of the table is a handed-off group: a message
\* accepted after the hand-off is in a group that shares no message with any
\* group handed off.  (A group object is known by the messages it holds: each
\* message is appended once, to one group object.)
C35_HandedGroupImmutable ==
  [][ /\ \A i \in HandedIndex :
           /\ i <= Len(handed')
           /\ handed'[i].messages = handed[i].messages
           /\ handed'[i].primary_sender = handed[i].primary_sender
      /\ \A c \in Chats, i \in 1..Len(handed') :
           pending_groups'[c].present =>
             GetAllMessageIds(pending_groups'[c]) \cap GetAllMessageIds(handed'[i]) = {} ]_vars

\* Message 1's group was handed off by its timer; message 2, a reply to it
\* from the same sender, is in a new group of the same conversation.
C35_Witness ==
  /\ Len(handed) = 1
  /\ handed[1].messages = <<1>>
  /\ handed[1].by.kind = "timer"
  /\ pending_groups[1].present
  /\ pending_groups[1].messages = <<2>>

\* Conversation c has an open group, a registered timer, a last-activity time.
HasGroup(c) == pending_groups[c].present
HasTimer(c) == timers[c] # NoTimer
HasLastTime(c) == last_message_time[c] # NoTime

\* The tables while the lock is free: a timer only with a group, a
\* last-activity time exactly with a group and, until stop() is called, with
\* every group its registered timer, which is the conversation's only timer
\* task alive and not cancelled.
TablesConsistent ==
  ~locked =>
    \A c \in Chats :
      /\ HasTimer(c) => HasGroup(c)
      /\ HasLastTime(c) <=> HasGroup(c)
      /\ (~stopped /\ HasGroup(c)) =>
           /\ HasTimer(c)
           /\ {t \in LiveTimers(c) : ~tasks[t].cancel} = {timers[c]}

\* The finalizations of this step that are not followed, in the same
\* add_message call, by the creation of the next group.
FinalizedNow ==
  {i \in NewlyHanded : handed'[i].by.kind = "add" => handed'[i].by.id \in GetAllMessageIds(handed'[i])}

\* C36: the tables are consistent whenever the lock is free, and after a
\* finalization the conversation has no group, no timer and no last-activity
\* time.
C36_TableConsistency ==
  /\ [](TablesConsistent)
  /\ [][ \A i \in FinalizedNow :
           LET c == Pool[handed'[i].messages[1]].chat_id
           IN  /\ ~pending_groups'[c].present
               /\ timers'[c] = NoTimer
               /\ last_message_time'[c] = NoTime ]_vars

\* One conversation has an open group with its timer armed, the other was
\* finalized by its timer and has no entry left.
C36_Witness ==
  /\ ~locked /\ ~stopped
  /\ HasGroup(1) /\ HasTimer(1) /\ HasLastTime(1)
  /\ ~HasGroup(2) /\ ~HasTimer(2) /\ ~HasLastTime(2)
  /\ \E i \in HandedIndex :
       handed[i].by.kind = "timer" /\ Pool[handed[i].messages[1]].chat_id = 2

\* This step is a step of add_message for message m or of the timer task
\* that m armed: for m's conversation.
StepFor(m) ==
  \/ AddMessage(m) \/ AddAcquire(m) \/ AddResume(m)
  \/ TimerExpire(m) \/ TimerAcquire(m) \/ TimerCancelled(m)

\* The step leaves conversation c's group, registered timer, timer tasks and
\* stored last-activity time as they are.
Untouched(c) ==
  /\ pending_groups'[c] = pending_groups[c]
  /\ timers'[c] = timers[c]
  /\ last_message_time'[c] = last_message_time[c]
  /\ \A t \in MsgIds : Pool[t].chat_id = c => tasks'[t] = tasks[t]

\* C37: an arrival, a timer expiry or a finalization for one conversation
\* leaves every other conversation's group, timer and last-activity time
\* unchanged; the messages of a group are all of one conversation, for an
\* open group the one under which the table holds it.
C37_ConversationsIndependent ==
  /\ [][ \A m \in MsgIds :
           StepFor(m) => \A c \in Chats \ {Pool[m].chat_id} : Untouched(c) ]_vars
  /\ [](\A group \in GroupsWithMessages :
          \A i \in 1..Len(group.messages) :
            Pool[group.messages[i]].chat_id = Pool[group.messages[1]].chat_id)
  /\ [](\A c \in Chats :
          \A i \in 1..Len(pending_groups[c].messages) :
            Pool[pending_groups[c].messages[i]].chat_id = c)

\* Conversation 2's group, opened first, is still open with its timer after
\* a group of conversation 1 has been handed off.
C37_Witness ==
  /\ Len(admitted) >= 2
  /\ admitted[1] = 4
  /\ pending_groups[2].present
  /\ pending_groups[2].messages = <<4>>
  /\ timers[2] = 4
  /\ \E i \in HandedIndex : Pool[handed[i].messages[1]].chat_id = 1

\* add_message for m is in progress: queued for the lock, or suspended in
\* _reset_timer with the lock held.
InProgress(m) == adds[m].pc \in {"lock", "await"}

\* C38: every add_message call in progress ends, whether it waits for the
\* lock or, holding the lock, for the timer it has cancelled (which may be
\* queued for that lock itself), and a lock that is held is released: a call
\* that has ended stays ended, and again and again the lock is free with no
\* call in progress.
C38_AddMessageCompletes ==
  /\ [][\A m \in MsgIds : adds[m].pc = "done" => adds'[m].pc = "done"]_vars
  /\ []<>(~locked /\ \A m \in MsgIds : ~InProgress(m))

\* add_message holds the lock and awaits the timer it has cancelled, which
\* had expired and is queued for the lock.
C38_Witness ==
  \E m \in MsgIds :
    /\ adds[m].pc = "await"
    /\ locked
    /\ tasks[adds[m].await_t].state = "lock"
    /\ tasks[adds[m].await_t].cancel

\* The file that group g's extract call writes.
OwnPath(g) == PdfPath(group_url[g])

\* This step is the first or the last step of group g's extract call.
StartsOrEnds(g) ==
  \/ extracting[g] = "idle" /\ extracting'[g] # "idle"
  \/ extracting[g] # "returned" /\ extracting'[g] = "returned"

\* What each step of an extract call does to the files and the cleanup list
\* when calls overlap: another call's tracked file stays tracked, a returning
\* call with cleanup enabled deletes its own file and no other, and a file
\* that another call has written and not yet read stays.
CleanupKeptApart(g) ==
  /\ StartsOrEnds(g) =>
       \A h \in Groups \ {g} :
         (InFlight(h) /\ OwnPath(h) \in PathsIn(pending_cleanup))
           => OwnPath(h) \in PathsIn(pending_cleanup')
  /\ (cleanup_after_extract /\ extracting[g] = "llm" /\ extracting'[g] = "returned") =>
       /\ files \ files' = {OwnPath(g)} \cap files
       /\ \A h \in Groups \ {g} : extracting[h] = "saved" => OwnPath(h) \in files'

C39_CleanupPerCallDistinctUrls ==
  [][group_url[1] # group_url[2] => \A g \in Groups : CleanupKeptApart(g)]_vars

====
